---- MODULE Spec2Model ----
(***************************************************************************)
(* Model of graphix-ibmq: the pattern-to-circuit compiler                  *)
(* (graphix_ibmq/compiler.py, IBMQPatternCompiler), its classical          *)
(* feed-forward emission, the result decoder                               *)
(* (graphix_ibmq/result_utils.py, format_result), the retrieval of a job's *)
(* result (graphix_ibmq/job.py, IBMQJob, and IBMQBackend.retrieve_result)  *)
(* the Clifford gate tables (graphix_ibmq/clifford.py) and the calls on an *)
(* IBMQBackend (graphix_ibmq/backend.py: compile, set_simulator,           *)
(* select_backend, submit_job).                                            *)
(*                                                                         *)
(* A pattern is read one command at a time: each dispatcher step draws the *)
(* next command of the stream, so the behaviours of Spec are the runs of   *)
(* compile over every command stream of at most MaxCmds commands.          *)
(* SpecRecompile keeps the stream and calls compile a second time on the   *)
(* same compiler; SpecBackend is every sequence of at most MaxCalls calls  *)
(* on one backend. SpecVariants and SpecCliffordVariants run the older     *)
(* interpreter (graphix_ibmq/runner.py, IBMQBackend.to_qiskit) on the      *)
(* commands the compiler reads; SpecPolling is a caller that calls         *)
(* retrieve_result repeatedly.                                             *)
(***************************************************************************)
EXTENDS Integers, Sequences, FiniteSets, TLC

\* ------------------------------------------------------------------ bounds
MaxNode == 2        \* pattern nodes are 0 .. MaxNode-1
MaxSpace == 2       \* pattern.max_space() ranges over 1 .. MaxSpace
MaxNNode == 2       \* pattern.n_node ranges over 1 .. MaxNNode
MaxInputs == 2      \* at most MaxInputs input nodes
MaxCmds == 3        \* length of the command stream
MaxDom == 1         \* size of a signal domain of a dispatched command
MaxOut == 2         \* at most MaxOut output nodes
MaxDet == 1         \* nodes 0 .. MaxDet-1 may have a result known at compile time

Nodes == 0 .. (MaxNode - 1)
Bits == {0, 1}

\* ------------------------------------------------------------ small helpers
Range(s) == {s[i] : i \in 1 .. Len(s)}

\* the duplicate-free sequences over S of length at most k: the orders in
\* which a set or list of at most k distinct nodes can be iterated
InjSeqs(S, k) ==
  UNION {{s \in [1 .. n -> S] : \A i, j \in 1 .. n : i # j => s[i] # s[j]} : n \in 0 .. k}

\* the partial maps from a subset of S to T (Python dicts)
Dicts(S, T) == UNION {[D -> T] : D \in SUBSET S}

\* d[k] = v on a dict
DictSet(d, k, v) == [x \in (DOMAIN d) \cup {k} |-> IF x = k THEN v ELSE d[x]]

EmptyDict == [x \in {} |-> 0]

\* ------------------------------------------------------- circuit operations
NoReg == -1         \* an operation that is not inside an if_test block
NoBit == -1         \* an operation that writes no classical bit
NoClifford == -1    \* a Measure command without a local Clifford

\* one entry of QuantumCircuit.data; cond = r means the operation is the body
\* of `with circuit.if_test(expr.equal(creg[r], True))`
Op(name, qubits, clbit, cond, param) ==
  [name |-> name, qubits |-> qubits, clbit |-> clbit, cond |-> cond, param |-> param]

Gate(name, q) == Op(name, <<q>>, NoBit, NoReg, 0)
CondGate(name, q, r) == Op(name, <<q>>, NoBit, r, 0)
MeasureOp(q, c) == Op("measure", <<q>>, c, NoReg, 0)
SaveStatevector == Op("save_statevector", <<>>, NoBit, NoReg, 0)

\* ------------------------------------------------------------ Clifford table
\* a conjugate table that maps every index to itself
CLIFFORD_CONJ_self == [i \in 1 .. 24 |-> i - 1]

\* CLIFFORD_CONJ[i] is at position i+1
CLIFFORD_CONJ ==
  <<0, 1, 2, 3, 5, 4, 6, 15, 12, 9, 10, 11, 8, 13, 14, 7, 20, 22, 23, 21, 16, 19, 17, 18>>

\* a gate table whose entries all spell out a five-gate sequence
CLIFFORD_TO_QISKIT_long == [i \in 1 .. 24 |-> <<"h", "s", "h", "s", "h">>]

\* CLIFFORD_TO_QISKIT[i] is at position i+1
CLIFFORD_TO_QISKIT ==
  << <<"id">>, <<"x">>, <<"y">>, <<"z">>, <<"s">>, <<"sdg">>, <<"h">>,
     <<"sdg", "h", "sdg">>, <<"h", "x">>, <<"sdg", "y">>, <<"sdg", "x">>,
     <<"h", "y">>, <<"h", "z">>, <<"sdg", "h", "sdg", "y">>, <<"sdg", "h", "s">>,
     <<"sdg", "h", "sdg", "x">>, <<"sdg", "h">>, <<"sdg", "h", "y">>,
     <<"sdg", "h", "z">>, <<"sdg", "h", "x">>, <<"h", "s">>, <<"h", "sdg">>,
     <<"h", "x", "sdg">>, <<"h", "x", "s">> >>

\* the Clifford indices a dispatched C command is drawn from
CliffordSample == {4, 13}
\* the local Clifford a dispatched M command may carry
LocalCliffords == {4}

\* gate names of one table entry applied to qubit q, in list order
GateSeq(names, q) == [i \in 1 .. Len(names) |-> Gate(names[i], q)]

\* --------------------------------------------------------------- exceptions
NoError == "none"
KeyError == -2      \* result of a failed dict lookup

\* d.get(k, 0) in place of d[k]
LookupOrZero(d, k) == IF k \in DOMAIN d THEN d[k] ELSE 0

\* d[k] on a Python dict: the value, or KeyError when k is not a key
Lookup(d, k) == IF k \in DOMAIN d THEN d[k] ELSE KeyError

\* ----------------------------------------------------------------- commands
Planes == {"XY", "YZ", "XZ"}
\* measurement angles, in units of pi
AngleSample == {0, 1}

\* a command of the pattern; the fields a command kind does not have keep
\* their defaults
Cmd(kind, node, nodes, plane, angle, s_domain, t_domain, domain, clifford) ==
  [kind |-> kind, node |-> node, nodes |-> nodes, plane |-> plane, angle |-> angle,
   s_domain |-> s_domain, t_domain |-> t_domain, domain |-> domain, clifford |-> clifford]

NoCmd == Cmd("none", -1, <<>>, "", 0, <<>>, <<>>, <<>>, NoClifford)
CmdN(node) == Cmd("N", node, <<>>, "", 0, <<>>, <<>>, <<>>, NoClifford)
CmdE(a, b) == Cmd("E", -1, <<a, b>>, "", 0, <<>>, <<>>, <<>>, NoClifford)
CmdM(node, plane, angle, s, t, vop) == Cmd("M", node, <<>>, plane, angle, s, t, <<>>, vop)
CmdX(node, domain) == Cmd("X", node, <<>>, "", 0, <<>>, <<>>, domain, NoClifford)
CmdZ(node, domain) == Cmd("Z", node, <<>>, "", 0, <<>>, <<>>, domain, NoClifford)
CmdC(node, clifford) == Cmd("C", node, <<>>, "", 0, <<>>, <<>>, <<>>, clifford)
\* not a command: the stream is exhausted and _finalize_circuit has run
Finalizing == Cmd("finalize", -1, <<>>, "", 0, <<>>, <<>>, <<>>, NoClifford)

\* the iteration orders of the signal domains a dispatched command may carry
Domains == InjSeqs(Nodes, MaxDom)

\* the angle, domains and local Clifford of the dispatched M commands: every
\* plain measurement, and the bare measurements that carry a local Clifford
MeasureSample ==
  {[angle |-> a, s |-> s, t |-> t, vop |-> NoClifford] :
     a \in AngleSample, s \in Domains, t \in Domains}
  \cup {[angle |-> 0, s |-> <<>>, t |-> <<>>, vop |-> v] : v \in LocalCliffords}

\* -------------------------------------------------------------------- state
VARIABLES
  max_space,         \* pattern.max_space()
  n_node,            \* pattern.n_node
  input_nodes,       \* pattern.input_nodes
  results,           \* pattern.results: node -> bit known at compile time
  output_nodes,      \* pattern.output_nodes, drawn when _finalize_circuit reads it
  available_qubits,  \* self._available_qubits
  qubit_map,         \* self._qubit_map
  creg_map,          \* self._creg_map
  next_creg_idx,     \* self._next_creg_idx
  circuit,           \* self._circuit.data
  circ_output,       \* the circ_output of the returned IBMQCompiledCircuit
  save_statevector,  \* the argument of compile, drawn when _finalize_circuit reads it
  pc,                \* "dispatch", "done" (compile returned) or "error" (it raised)
  err,               \* the exception that ended the compilation
  cmd,               \* the command handled last (Finalizing once the stream is exhausted)
  cmd_start,         \* Len(circuit) when the handling of cmd began
  n_cmds,            \* number of commands read from the stream
  ff_args,           \* op and target_qubit of a direct _apply_classical_feedforward call
  raw,               \* the raw histogram handed to format_result
  formatted,         \* the histogram format_result returned
  status,            \* what job.status() returns
  caller,            \* the class whose retrieve_result was called
  raw_result,        \* the raw_result argument of that call
  done_seen,         \* the value is_done had in that call
  returned,          \* what that call returned or raised
  result_fetches,    \* number of calls of job.result()
  format_calls,      \* the arguments of the calls of format_result made by retrieve_result
  stream,            \* the commands of the pattern read so far, kept when compile is called twice
  pass,              \* 0: the stream is not kept; 1, 2: first and second call of compile
  first,             \* what the first call of compile returned
  b_pattern,         \* IBMQBackend.pattern
  b_options,         \* IBMQBackend._options
  b_compiler,        \* IBMQBackend._compiler
  b_compiled_circuit,  \* IBMQBackend._compiled_circuit
  b_execution_mode,  \* IBMQBackend._execution_mode
  b_simulator,       \* IBMQBackend._simulator, Unset until set_simulator assigns it
  b_resource,        \* IBMQBackend._resource, Unset until select_backend assigns it
  b_jobs,            \* the jobs handed to the sampler by submit_job
  b_outcome,         \* the last call on the backend and the exception it raised
  b_history,         \* the outcomes of the calls made on the backend, in order
  runner             \* the local variables of runner.IBMQBackend.to_qiskit on the same pattern

pattern_vars == <<max_space, n_node, input_nodes, results, output_nodes, save_statevector>>
compiler_vars == <<available_qubits, qubit_map, creg_map, next_creg_idx, circuit, circ_output>>
control_vars == <<pc, err, cmd, cmd_start, n_cmds>>
decoder_vars == <<ff_args, raw, formatted>>
job_vars == <<status, caller, raw_result, done_seen, returned, result_fetches, format_calls>>
replay_vars == <<stream, pass, first>>
variant_vars == <<runner>>
backend_vars == <<b_pattern, b_options, b_compiler, b_compiled_circuit, b_execution_mode,
                  b_simulator, b_resource, b_jobs, b_outcome, b_history>>
compilation_vars == <<pattern_vars, compiler_vars, control_vars, decoder_vars, job_vars,
                      replay_vars, variant_vars>>
vars == <<compilation_vars, backend_vars>>

\* --------------------------------------------------------- qubit allocation
\* the allocator's part of the compiler state
Alloc(ok, avail, qmap, circ, idx) ==
  [ok |-> ok, avail |-> avail, qmap |-> qmap, circ |-> circ, idx |-> idx]

\* _allocate_qubit reading the first free index without removing it from the pool
allocate_qubit_no_pop(avail, qmap, circ, node_idx) ==
  IF avail = <<>>
  THEN Alloc(FALSE, avail, qmap, circ, -1)
  ELSE Alloc(TRUE, avail, DictSet(qmap, node_idx, Head(avail)),
             Append(circ, Gate("reset", Head(avail))), Head(avail))

\* _allocate_qubit emitting the reset before it finds the pool empty
allocate_qubit_reset_first(avail, qmap, circ, node_idx) ==
  IF avail = <<>>
  THEN Alloc(FALSE, avail, qmap, Append(circ, Gate("reset", 0)), -1)
  ELSE Alloc(TRUE, Tail(avail), DictSet(qmap, node_idx, Head(avail)),
             Append(circ, Gate("reset", Head(avail))), Head(avail))

\* _allocate_qubit: ok = FALSE is the RuntimeError of an empty pool
allocate_qubit(avail, qmap, circ, node_idx) ==
  IF avail = <<>>
  THEN Alloc(FALSE, avail, qmap, circ, -1)
  ELSE Alloc(TRUE, Tail(avail), DictSet(qmap, node_idx, Head(avail)),
             Append(circ, Gate("reset", Head(avail))), Head(avail))

\* _release_qubit dropping the index instead of returning it to the pool
release_qubit_dropped(avail, circ_idx) == avail

\* _release_qubit: the index goes to the back of the pool
release_qubit(avail, circ_idx) == Append(avail, circ_idx)

\* allocation followed by the Hadamard (the body of _apply_n and of the
\* input-node loop of __init__)
allocate_plus(avail, qmap, circ, node_idx) ==
  LET a == allocate_qubit(avail, qmap, circ, node_idx)
  IN  IF a.ok THEN Alloc(TRUE, a.avail, a.qmap, Append(a.circ, Gate("h", a.idx)), a.idx)
      ELSE a

\* the loop over pattern.input_nodes in __init__; stops at the first failure
RECURSIVE allocate_inputs(_, _, _, _)
allocate_inputs(avail, qmap, circ, inputs) ==
  IF inputs = <<>>
  THEN Alloc(TRUE, avail, qmap, circ, -1)
  ELSE LET a == allocate_plus(avail, qmap, circ, Head(inputs))
       IN  IF a.ok THEN allocate_inputs(a.avail, a.qmap, a.circ, Tail(inputs)) ELSE a

\* ------------------------------------------------------- classical feedforward
\* _apply_classical_feedforward leaving the loop after the first domain node
RECURSIVE apply_classical_feedforward_first_only(_, _, _, _, _)
apply_classical_feedforward_first_only(op, target_qubit, domain, cregs, res) ==
  IF op \notin {"X", "Z"} \/ domain = <<>>
  THEN <<>>
  ELSE LET node_idx == Head(domain)
           gate == IF op = "X" THEN "x" ELSE "z"
       IN  IF node_idx \in DOMAIN cregs
           THEN <<CondGate(gate, target_qubit, cregs[node_idx])>>
           ELSE IF Lookup(res, node_idx) = 1
                THEN <<Gate(gate, target_qubit)>>
                ELSE <<>>

\* _apply_classical_feedforward consulting pattern.results before the register map
RECURSIVE apply_classical_feedforward_results_first(_, _, _, _, _)
apply_classical_feedforward_results_first(op, target_qubit, domain, cregs, res) ==
  IF op \notin {"X", "Z"} \/ domain = <<>>
  THEN <<>>
  ELSE LET node_idx == Head(domain)
           gate == IF op = "X" THEN "x" ELSE "z"
           here == IF Lookup(res, node_idx) = 1
                   THEN <<Gate(gate, target_qubit)>>
                   ELSE IF node_idx \in DOMAIN cregs
                        THEN <<CondGate(gate, target_qubit, cregs[node_idx])>>
                        ELSE <<>>
       IN  here \o apply_classical_feedforward_results_first(op, target_qubit, Tail(domain), cregs, res)

\* _apply_classical_feedforward: the operations emitted for one domain,
\* iterated in the order of the sequence domain
RECURSIVE apply_classical_feedforward(_, _, _, _, _)
apply_classical_feedforward(op, target_qubit, domain, cregs, res) ==
  IF op \notin {"X", "Z"} \/ domain = <<>>
  THEN <<>>
  ELSE LET node_idx == Head(domain)
           gate == IF op = "X" THEN "x" ELSE "z"
           here == IF node_idx \in DOMAIN cregs
                   THEN <<CondGate(gate, target_qubit, cregs[node_idx])>>
                   ELSE IF Lookup(res, node_idx) = 1
                        THEN <<Gate(gate, target_qubit)>>
                        ELSE <<>>
       IN  here \o apply_classical_feedforward(op, target_qubit, Tail(domain), cregs, res)

\* the arguments of a direct call, when there is none
NoArgs == [op |-> "none", target_qubit |-> -1]

\* ---------------------------------------------------------------- job values
\* a status as job.status() returns it: a member of the JobStatus enum
\* (simulator jobs) or a plain string (hardware jobs)
JobStatus(name, repr) == [name |-> name, repr |-> repr]
NoStatus == JobStatus("none", "none")

\* the outcome of a call of retrieve_result
NoReturn == [kind |-> "none", value |-> <<>>, err |-> "none"]
ReturnNone == [kind |-> "None", value |-> <<>>, err |-> "none"]
ReturnValue(v) == [kind |-> "value", value |-> v, err |-> "none"]
ReturnRaised(e) == [kind |-> "raised", value |-> <<>>, err |-> e]

\* no job was created
NoJob ==
  /\ status = NoStatus
  /\ caller = "none"
  /\ raw_result = FALSE
  /\ done_seen = FALSE
  /\ returned = NoReturn
  /\ result_fetches = 0
  /\ format_calls = <<>>

\* ----------------------------------------------------- repeated compilation
\* the result of a call of compile that has not been made
NoFirst == [circuit |-> <<>>, register_dict |-> EmptyDict]

\* compile is called once and the stream is not kept
NoReplay ==
  /\ stream = <<>>
  /\ pass = 0
  /\ first = NoFirst

\* ------------------------------------------------------------ backend values
\* None, for an attribute of IBMQBackend or an argument of its methods
None == [type |-> "NoneType"]

\* a str value
Str(value) == [type |-> "str", value |-> value]

\* a call on the backend and the exception it raised (NoError if it returned)
Outcome(call, raised) == [call |-> call, raised |-> raised]

\* an attribute that no method has assigned yet
Unset == "unset"

\* the fields of an IBMQBackend after __init__, before any call on it
NoBackend ==
  /\ b_pattern = None
  /\ b_options = None
  /\ b_compiler = None
  /\ b_compiled_circuit = None
  /\ b_execution_mode = None
  /\ b_simulator = Unset
  /\ b_resource = Unset
  /\ b_jobs = <<>>
  /\ b_outcome = Outcome("__init__", "none")
  /\ b_history = <<>>

\* ------------------------------------------ runner.IBMQBackend.to_qiskit
\* the circuit method QiskitUGate.perform calls for a member other than ID
QiskitUGate == [X |-> "x", Y |-> "y", Z |-> "z", S |-> "s", SDG |-> "sdg", H |-> "h"]

\* QiskitUGate.perform: the operations appended to the circuit; the member
\* ID appends none
perform(gate, circ_idx) ==
  IF gate = "ID" THEN <<>> ELSE <<Gate(QiskitUGate[gate], circ_idx)>>

\* the CLIFFORD_TO_QISKIT of runner.py; the entry of index i is at position i+1
runner_CLIFFORD_TO_QISKIT ==
  << <<"ID">>, <<"X">>, <<"Y">>, <<"Z">>, <<"S">>, <<"SDG">>, <<"H">>,
     <<"SDG", "H", "SDG">>, <<"H", "X">>, <<"SDG", "Y">>, <<"SDG", "X">>,
     <<"H", "Y">>, <<"H", "Z">>, <<"SDG", "H", "SDG", "Y">>, <<"SDG", "H", "S">>,
     <<"SDG", "H", "SDG", "X">>, <<"SDG", "H">>, <<"SDG", "H", "Y">>,
     <<"SDG", "H", "Z">>, <<"SDG", "H", "X">>, <<"H", "S">>, <<"H", "SDG">>,
     <<"H", "X", "SDG">>, <<"H", "X", "S">> >>

\* the loop of the C branch of to_qiskit over one table entry
RECURSIVE perform_entry(_, _)
perform_entry(entry, circ_idx) ==
  IF entry = <<>> THEN <<>>
  ELSE perform(Head(entry), circ_idx) \o perform_entry(Tail(entry), circ_idx)

\* the local variables of to_qiskit; raised is the exception that left it
RunnerState(empty, qubits, registers, idx, circ, output_qubit, raised) ==
  [empty_qubit |-> empty, qubit_dict |-> qubits, register_dict |-> registers,
   reg_idx |-> idx, circ |-> circ, circ_output |-> output_qubit, raised |-> raised]

\* to_qiskit is not called
NoRunner == RunnerState(<<>>, EmptyDict, EmptyDict, 0, <<>>, <<>>, "not_called")

\* a compilation that is not compared with to_qiskit
NoVariant == runner = NoRunner

\* to_qiskit left by the exception e after appending ops
Abort(r, e, ops) == [r EXCEPT !.raised = e, !.circ = @ \o ops]

\* signal_process: the operations appended for one signal domain; ok = FALSE
\* when pattern.results has no entry for a node that has no register either
RECURSIVE signal_process(_, _, _, _, _)
signal_process(op, signal, circ_idx, register_dict, res) ==
  IF op \notin {"X", "Z"} \/ signal = <<>>
  THEN [ok |-> TRUE, ops |-> <<>>]
  ELSE LET s == Head(signal)
           gate == IF op = "X" THEN "x" ELSE "z"
       IN  IF s \in DOMAIN register_dict
           THEN LET rest == signal_process(op, Tail(signal), circ_idx, register_dict, res)
                IN  [ok |-> rest.ok,
                     ops |-> <<CondGate(gate, circ_idx, register_dict[s])>> \o rest.ops]
           ELSE IF s \notin DOMAIN res
                THEN [ok |-> FALSE, ops |-> <<>>]
                ELSE LET rest == signal_process(op, Tail(signal), circ_idx, register_dict, res)
                     IN  [ok |-> rest.ok,
                          ops |-> (IF res[s] = 1 THEN <<Gate(gate, circ_idx)>> ELSE <<>>)
                                  \o rest.ops]

\* the first four lines of the N branch and of the input loop
to_qiskit_allocate(r, node) ==
  IF r.empty_qubit = <<>>
  THEN Abort(r, "IndexError", <<>>)
  ELSE LET circ_idx == Head(r.empty_qubit)
       IN  [r EXCEPT !.empty_qubit = Tail(@),
                     !.circ = @ \o <<Gate("reset", circ_idx), Gate("h", circ_idx)>>,
                     !.qubit_dict = DictSet(@, node, circ_idx)]

\* the loop of to_qiskit over pattern.input_nodes
RECURSIVE to_qiskit_inputs(_, _)
to_qiskit_inputs(r, inputs) ==
  IF inputs = <<>> \/ r.raised # NoError
  THEN r
  ELSE to_qiskit_inputs(to_qiskit_allocate(r, Head(inputs)), Tail(inputs))

\* the E branch
to_qiskit_e(r, c) ==
  LET u == Lookup(r.qubit_dict, c.nodes[1])
      v == Lookup(r.qubit_dict, c.nodes[2])
  IN  IF u = KeyError \/ v = KeyError
      THEN Abort(r, "KeyError", <<>>)
      ELSE IF u = v
           THEN Abort(r, "CircuitError", <<>>)
           ELSE [r EXCEPT !.circ = Append(@, Op("cz", <<u, v>>, NoBit, NoReg, 0))]

\* the M branch; angles are in units of pi
to_qiskit_m(r, c, res, size) ==
  LET circ_idx == Lookup(r.qubit_dict, c.node)
      x == signal_process("X", c.s_domain, circ_idx, r.register_dict, res)
      z == signal_process("Z", c.t_domain, circ_idx, r.register_dict, res)
      basis == IF c.plane = "XY"
               THEN <<Op("rz", <<circ_idx>>, NoBit, NoReg, -c.angle), Gate("h", circ_idx)>>
               ELSE IF c.plane = "YZ"
                    THEN <<Op("rx", <<circ_idx>>, NoBit, NoReg, c.angle)>>
                    ELSE <<Op("ry", <<circ_idx>>, NoBit, NoReg, c.angle)>>
  IN  IF circ_idx = KeyError
      THEN Abort(r, "KeyError", <<>>)
      ELSE IF ~x.ok
           THEN Abort(r, "KeyError", x.ops)
           ELSE IF ~z.ok
                THEN Abort(r, "KeyError", x.ops \o z.ops)
                ELSE IF r.reg_idx >= size
                     THEN Abort(r, "CircuitError", x.ops \o z.ops \o basis)
                     ELSE [r EXCEPT
                             !.circ = Append(@ \o x.ops \o z.ops \o basis,
                                             MeasureOp(circ_idx, r.reg_idx)),
                             !.register_dict = DictSet(@, c.node, r.reg_idx),
                             !.reg_idx = @ + 1,
                             !.empty_qubit = Append(@, circ_idx)]

\* the X and Z branches
to_qiskit_correction(r, c, res) ==
  LET circ_idx == Lookup(r.qubit_dict, c.node)
      s == signal_process(c.kind, c.domain, circ_idx, r.register_dict, res)
  IN  IF circ_idx = KeyError
      THEN Abort(r, "KeyError", <<>>)
      ELSE IF ~s.ok
           THEN Abort(r, "KeyError", s.ops)
           ELSE [r EXCEPT !.circ = @ \o s.ops]

\* the C branch
to_qiskit_c(r, c) ==
  LET circ_idx == Lookup(r.qubit_dict, c.node)
  IN  IF circ_idx = KeyError
      THEN Abort(r, "KeyError", <<>>)
      ELSE [r EXCEPT !.circ = @ \o perform_entry(runner_CLIFFORD_TO_QISKIT[c.clifford + 1],
                                                 circ_idx)]

\* one iteration of the loop of to_qiskit over the commands of the pattern
to_qiskit_command(r, c, res, size) ==
  IF r.raised # NoError THEN r
  ELSE IF c.kind = "N" THEN to_qiskit_allocate(r, c.node)
  ELSE IF c.kind = "E" THEN to_qiskit_e(r, c)
  ELSE IF c.kind = "M" THEN to_qiskit_m(r, c, res, size)
  ELSE IF c.kind \in {"X", "Z"} THEN to_qiskit_correction(r, c, res)
  ELSE IF c.kind = "C" THEN to_qiskit_c(r, c)
  ELSE r

\* the loop over pattern.output_nodes that ends to_qiskit
RECURSIVE to_qiskit_measure_outputs(_, _, _)
to_qiskit_measure_outputs(r, outs, size) ==
  IF outs = <<>> \/ r.raised # NoError
  THEN r
  ELSE LET circ_idx == Lookup(r.qubit_dict, Head(outs))
       IN  IF circ_idx = KeyError
           THEN Abort(r, "KeyError", <<>>)
           ELSE IF r.reg_idx >= size
                THEN Abort(r, "CircuitError", <<>>)
                ELSE to_qiskit_measure_outputs(
                       [r EXCEPT !.circ = Append(@, MeasureOp(circ_idx, r.reg_idx)),
                                 !.register_dict = DictSet(@, Head(outs), r.reg_idx),
                                 !.reg_idx = @ + 1,
                                 !.circ_output = Append(@, circ_idx)],
                       Tail(outs), size)

\* the end of to_qiskit: the statevector is saved when asked for, the output
\* nodes are measured, and circ_output is kept only with save_statevector
to_qiskit_outputs(r, outs, save, size) ==
  IF r.raised # NoError THEN r
  ELSE LET saved == IF save THEN [r EXCEPT !.circ = Append(@, SaveStatevector)] ELSE r
           f == to_qiskit_measure_outputs(saved, outs, size)
       IN  IF save \/ f.raised # NoError THEN f ELSE [f EXCEPT !.circ_output = <<>>]

\* ------------------------------------------------------------------- Init
\* the pattern handed to IBMQPatternCompiler and the fields set by __init__
Construct ==
  /\ max_space \in 1 .. MaxSpace
  /\ n_node \in 1 .. MaxNNode
  /\ input_nodes \in InjSeqs(Nodes, MaxInputs)
  /\ results \in Dicts(0 .. (MaxDet - 1), Bits)
  /\ output_nodes = <<>>
  /\ save_statevector = FALSE
  /\ LET a == allocate_inputs([i \in 1 .. max_space |-> i - 1], EmptyDict, <<>>, input_nodes)
     IN  /\ available_qubits = a.avail
         /\ qubit_map = a.qmap
         /\ circuit = a.circ
         /\ pc = IF a.ok THEN "dispatch" ELSE "error"
         /\ err = IF a.ok THEN NoError ELSE "RuntimeError"
  /\ creg_map = EmptyDict
  /\ next_creg_idx = 0
  /\ circ_output = <<>>
  /\ cmd = NoCmd
  /\ cmd_start = 0
  /\ n_cmds = 0
  /\ ff_args = NoArgs
  /\ raw = EmptyDict
  /\ formatted = EmptyDict
  /\ NoJob
  /\ NoBackend

\* a compiler on which compile is called once
Init == Construct /\ NoReplay /\ NoVariant

\* ------------------------------------------------------------- dispatcher
MaxReplayCmds == 1  \* length of the command stream of a pattern compiled twice

\* _process_commands reading a command without moving on in the stream
Fetch_same_position(c) ==
  /\ pc = "dispatch"
  /\ n_cmds < MaxCmds
  /\ n_cmds' = n_cmds
  /\ cmd' = c
  /\ cmd_start' = Len(circuit)
  /\ stream' = stream
  /\ UNCHANGED <<pattern_vars, decoder_vars, job_vars, backend_vars, variant_vars, circ_output,
                 pass, first>>

\* reading the next command of the stream in _process_commands; the second
\* call of compile reads the commands the first call read
Fetch(c) ==
  /\ pc = "dispatch"
  /\ n_cmds < MaxCmds
  /\ pass = 1 => n_cmds < MaxReplayCmds
  /\ pass = 2 => (n_cmds < Len(stream) /\ c = stream[n_cmds + 1])
  /\ n_cmds' = n_cmds + 1
  /\ cmd' = c
  /\ cmd_start' = Len(circuit)
  /\ stream' = IF pass = 1 THEN Append(stream, c) ELSE stream
  /\ runner' = IF runner = NoRunner THEN runner ELSE to_qiskit_command(runner, c, results, n_node)
  /\ UNCHANGED <<pattern_vars, decoder_vars, job_vars, backend_vars, circ_output, pass, first>>

\* the handler raised: the exception leaves compile
Raise(e) ==
  /\ pc' = "error"
  /\ err' = e

Continue ==
  /\ pc' = "dispatch"
  /\ err' = err

\* _apply_n
apply_n ==
  \E node \in Nodes :
    /\ Fetch(CmdN(node))
    /\ LET a == allocate_plus(available_qubits, qubit_map, circuit, node)
       IN  /\ available_qubits' = a.avail
           /\ qubit_map' = a.qmap
           /\ circuit' = a.circ
           /\ IF a.ok THEN Continue ELSE Raise("RuntimeError")
    /\ UNCHANGED <<creg_map, next_creg_idx>>

\* _apply_e; cz on twice the same qubit is rejected by the circuit
apply_e ==
  \E a \in Nodes, b \in Nodes :
    /\ a # b
    /\ Fetch(CmdE(a, b))
    /\ LET qubit1 == Lookup(qubit_map, a)
           qubit2 == Lookup(qubit_map, b)
       IN  IF qubit1 = KeyError \/ qubit2 = KeyError
           THEN Raise("KeyError") /\ UNCHANGED circuit
           ELSE IF qubit1 = qubit2
                THEN Raise("CircuitError") /\ UNCHANGED circuit
                ELSE Continue /\ circuit' = Append(circuit, Op("cz", <<qubit1, qubit2>>, NoBit, NoReg, 0))
    /\ UNCHANGED <<available_qubits, qubit_map, creg_map, next_creg_idx>>

\* _apply_m applying the t_domain corrections after the Hadamard
apply_m_gates_z_last(circ_idx, c, cregs, res) ==
  apply_classical_feedforward("X", circ_idx, c.s_domain, cregs, res)
  \o (IF c.angle # 0 THEN <<Op("p", <<circ_idx>>, NoBit, NoReg, -c.angle)>> ELSE <<>>)
  \o <<Gate("h", circ_idx)>>
  \o apply_classical_feedforward("Z", circ_idx, c.t_domain, cregs, res)

\* the gates _apply_m emits before the measurement: the corrections of the
\* two domains, the phase rotation (only for a nonzero angle, parameter
\* -angle in units of pi) and the Hadamard
apply_m_gates(circ_idx, c, cregs, res) ==
  apply_classical_feedforward("X", circ_idx, c.s_domain, cregs, res)
  \o apply_classical_feedforward("Z", circ_idx, c.t_domain, cregs, res)
  \o (IF c.angle # 0 THEN <<Op("p", <<circ_idx>>, NoBit, NoReg, -c.angle)>> ELSE <<>>)
  \o <<Gate("h", circ_idx)>>

\* _apply_m checking the plane only after the Hadamard was emitted
apply_m_plane_checked_late ==
  \E node \in Nodes, plane \in Planes \ {"XY"} :
    /\ Fetch(CmdM(node, plane, 0, <<>>, <<>>, NoClifford))
    /\ IF Lookup(qubit_map, node) = KeyError
       THEN Raise("KeyError") /\ UNCHANGED circuit
       ELSE Raise("NotImplementedError")
            /\ circuit' = Append(circuit, Gate("h", Lookup(qubit_map, node)))
    /\ UNCHANGED <<available_qubits, qubit_map, creg_map, next_creg_idx>>

\* the plane check at the head of _apply_m: a plane other than XY raises
\* before the node is looked up
apply_m_unsupported_plane ==
  \E node \in Nodes, plane \in Planes \ {"XY"} :
    /\ Fetch(CmdM(node, plane, 0, <<>>, <<>>, NoClifford))
    /\ Raise("NotImplementedError")
    /\ UNCHANGED <<available_qubits, qubit_map, creg_map, next_creg_idx, circuit>>

\* _apply_m. A measurement into a classical bit the register does not have
\* is rejected by the circuit, and the handler is left before the recording
\* and the release.
apply_m ==
  \/ apply_m_unsupported_plane
  \/ \E node \in Nodes :
       /\ Lookup(qubit_map, node) = KeyError
       /\ Fetch(CmdM(node, "XY", 0, <<>>, <<>>, NoClifford))
       /\ Raise("KeyError")
       /\ UNCHANGED <<available_qubits, qubit_map, creg_map, next_creg_idx, circuit>>
  \/ \E node \in Nodes, m \in MeasureSample :
       LET c == CmdM(node, "XY", m.angle, m.s, m.t, m.vop)
           circ_idx == Lookup(qubit_map, node)
           gates == apply_m_gates(circ_idx, c, creg_map, results)
       IN  /\ circ_idx # KeyError
           /\ Fetch(c)
           /\ UNCHANGED qubit_map
           /\ IF next_creg_idx >= n_node
              THEN /\ Raise("CircuitError")
                   /\ circuit' = circuit \o gates
                   /\ UNCHANGED <<available_qubits, creg_map, next_creg_idx>>
              ELSE /\ Continue
                   /\ circuit' = Append(circuit \o gates, MeasureOp(circ_idx, next_creg_idx))
                   /\ creg_map' = DictSet(creg_map, node, next_creg_idx)
                   /\ next_creg_idx' = next_creg_idx + 1
                   /\ available_qubits' = release_qubit(available_qubits, circ_idx)

\* _apply_x and _apply_z
apply_correction(kind) ==
  \/ \E node \in Nodes :
       /\ Lookup(qubit_map, node) = KeyError
       /\ Fetch(Cmd(kind, node, <<>>, "", 0, <<>>, <<>>, <<>>, NoClifford))
       /\ Raise("KeyError")
       /\ UNCHANGED <<available_qubits, qubit_map, creg_map, next_creg_idx, circuit>>
  \/ \E node \in Nodes, domain \in Domains :
       /\ Lookup(qubit_map, node) # KeyError
       /\ Fetch(Cmd(kind, node, <<>>, "", 0, <<>>, <<>>, domain, NoClifford))
       /\ Continue
       /\ circuit' = circuit \o
            apply_classical_feedforward(kind, Lookup(qubit_map, node), domain, creg_map, results)
       /\ UNCHANGED <<available_qubits, qubit_map, creg_map, next_creg_idx>>

apply_x == apply_correction("X")

apply_z == apply_correction("Z")

\* _apply_c allocating a physical index for a node that has none
apply_c_allocating ==
  \E node \in Nodes, clifford \in CliffordSample :
    /\ Fetch(CmdC(node, clifford))
    /\ LET a == IF Lookup(qubit_map, node) = KeyError
                THEN allocate_qubit(available_qubits, qubit_map, circuit, node)
                ELSE Alloc(TRUE, available_qubits, qubit_map, circuit, qubit_map[node])
       IN  /\ available_qubits' = a.avail
           /\ qubit_map' = a.qmap
           /\ IF a.ok
              THEN Continue /\ circuit' = a.circ \o GateSeq(CLIFFORD_TO_QISKIT[clifford + 1], a.idx)
              ELSE Raise("KeyError") /\ UNCHANGED circuit
    /\ UNCHANGED <<creg_map, next_creg_idx>>

\* _apply_c: the gates of the Clifford, in list order
apply_c ==
  \E node \in Nodes, clifford \in CliffordSample :
    /\ Fetch(CmdC(node, clifford))
    /\ LET circ_idx == Lookup(qubit_map, node)
       IN  IF circ_idx = KeyError
           THEN Raise("KeyError") /\ UNCHANGED circuit
           ELSE Continue /\ circuit' = circuit \o GateSeq(CLIFFORD_TO_QISKIT[clifford + 1], circ_idx)
    /\ UNCHANGED <<available_qubits, qubit_map, creg_map, next_creg_idx>>

\* -------------------------------------------------------------- finalizer
Final(ok, circ, cregs, next) == [ok |-> ok, circ |-> circ, cregs |-> cregs, next |-> next]

\* the measurement loop of _finalize_circuit without the increment of the
\* register counter
RECURSIVE measure_outputs_same_register(_, _, _, _, _, _)
measure_outputs_same_register(circ, cregs, next, outs, qmap, size) ==
  IF outs = <<>>
  THEN Final(TRUE, circ, cregs, next)
  ELSE IF next >= size
       THEN Final(FALSE, circ, cregs, next)
       ELSE measure_outputs_same_register(Append(circ, MeasureOp(qmap[Head(outs)], next)),
                                          DictSet(cregs, Head(outs), next), next, Tail(outs),
                                          qmap, size)

\* the measurement loop of _finalize_circuit leaving a register index unused
\* after every output node
RECURSIVE measure_outputs_skipping(_, _, _, _, _, _)
measure_outputs_skipping(circ, cregs, next, outs, qmap, size) ==
  IF outs = <<>>
  THEN Final(TRUE, circ, cregs, next)
  ELSE IF next >= size
       THEN Final(FALSE, circ, cregs, next)
       ELSE measure_outputs_skipping(Append(circ, MeasureOp(qmap[Head(outs)], next)),
                                     DictSet(cregs, Head(outs), next), next + 2, Tail(outs),
                                     qmap, size)

\* the measurement loop of _finalize_circuit; ok = FALSE when a measurement
\* is rejected because the classical register has no such bit
RECURSIVE measure_outputs(_, _, _, _, _, _)
measure_outputs(circ, cregs, next, outs, qmap, size) ==
  IF outs = <<>>
  THEN Final(TRUE, circ, cregs, next)
  ELSE IF next >= size
       THEN Final(FALSE, circ, cregs, next)
       ELSE measure_outputs(Append(circ, MeasureOp(qmap[Head(outs)], next)),
                            DictSet(cregs, Head(outs), next), next + 1, Tail(outs), qmap, size)

\* _finalize_circuit returning the output qubits whatever save_statevector is
finalize_return_always(save, output_qubits) == output_qubits

\* the value _finalize_circuit returns
finalize_return(save, output_qubits) == IF save THEN output_qubits ELSE <<>>

\* the end of compile: _finalize_circuit and the returned IBMQCompiledCircuit
finalize ==
  \E outs \in InjSeqs(Nodes, MaxOut), save \in BOOLEAN :
    /\ pc = "dispatch"
    /\ pass = 2 => (n_cmds = Len(stream) /\ outs = output_nodes /\ save = save_statevector)
    /\ output_nodes' = outs
    /\ save_statevector' = save
    /\ cmd' = Finalizing
    /\ cmd_start' = Len(circuit)
    /\ UNCHANGED <<max_space, n_node, input_nodes, results, available_qubits, qubit_map,
                   n_cmds, decoder_vars, job_vars, replay_vars, backend_vars>>
    /\ runner' = IF runner = NoRunner THEN runner ELSE to_qiskit_outputs(runner, outs, save, n_node)
    /\ IF \E i \in 1 .. Len(outs) : outs[i] \notin DOMAIN qubit_map
       THEN /\ Raise("KeyError")
            /\ UNCHANGED <<circuit, creg_map, next_creg_idx, circ_output>>
       ELSE LET output_qubits == [i \in 1 .. Len(outs) |-> qubit_map[outs[i]]]
                saved == IF save THEN Append(circuit, SaveStatevector) ELSE circuit
                f == measure_outputs(saved, creg_map, next_creg_idx, outs, qubit_map, n_node)
            IN  /\ circuit' = f.circ
                /\ creg_map' = f.cregs
                /\ next_creg_idx' = f.next
                /\ IF f.ok
                   THEN /\ pc' = "done"
                        /\ err' = err
                        /\ circ_output' = finalize_return(save, output_qubits)
                   ELSE /\ Raise("CircuitError")
                        /\ UNCHANGED circ_output

\* the compilation of a pattern by IBMQPatternCompiler
Next ==
  \/ apply_n
  \/ apply_e
  \/ apply_m
  \/ apply_x
  \/ apply_z
  \/ apply_c
  \/ finalize

Spec == Init /\ [][Next]_vars

\* ------------------------------------------------- the two interpreters
\* to_qiskit has run its input loop on the pattern handed to the compiler,
\* a pattern none of whose measurements was performed beforehand
InitVariants ==
  /\ Construct
  /\ results = EmptyDict
  /\ NoReplay
  /\ runner = to_qiskit_inputs(RunnerState([i \in 1 .. max_space |-> i - 1], EmptyDict, EmptyDict,
                                            0, <<>>, <<>>, NoError),
                                input_nodes)

\* IBMQPatternCompiler.compile and to_qiskit reading the same commands
SpecVariants == InitVariants /\ [][Next]_vars

\* ------------------------------------------------------- compile called twice
\* compile has returned and is called again on the same IBMQPatternCompiler,
\* with the same argument: _process_commands iterates over the pattern again
\* and works on the fields as the first call left them
compile_again ==
  /\ pc = "done"
  /\ pass = 1
  /\ pass' = 2
  /\ first' = [circuit |-> circuit, register_dict |-> creg_map]
  /\ pc' = "dispatch"
  /\ n_cmds' = 0
  /\ cmd' = NoCmd
  /\ cmd_start' = Len(circuit)
  /\ UNCHANGED <<pattern_vars, compiler_vars, err, decoder_vars, job_vars, backend_vars,
                 variant_vars, stream>>

\* a compiler on which compile is called twice
InitRecompile ==
  /\ Construct
  /\ stream = <<>>
  /\ pass = 1
  /\ first = NoFirst
  /\ NoVariant

NextRecompile ==
  \/ Next
  \/ compile_again

SpecRecompile == InitRecompile /\ [][NextRecompile]_vars

\* ------------------------------------------- feed-forward as a function
\* _apply_classical_feedforward called on its own: the register map and the
\* known results are drawn at the start, the call appends to an empty circuit.
MaxFFDom == 2       \* size of the domain of a direct feed-forward call

\* the register maps: injective partial maps from nodes to register indices
RegisterMaps ==
  {d \in Dicts(Nodes, 0 .. (MaxNode - 1)) : \A x, y \in DOMAIN d : x # y => d[x] # d[y]}

InitFF ==
  /\ max_space = MaxSpace
  /\ n_node = MaxNode
  /\ input_nodes = <<>>
  /\ results \in Dicts(Nodes, Bits)
  /\ output_nodes = <<>>
  /\ save_statevector = FALSE
  /\ available_qubits = <<>>
  /\ qubit_map = EmptyDict
  /\ creg_map \in RegisterMaps
  /\ next_creg_idx = MaxNode
  /\ circuit = <<>>
  /\ circ_output = <<>>
  /\ pc = "ff_call"
  /\ err = NoError
  /\ cmd = NoCmd
  /\ cmd_start = 0
  /\ n_cmds = 0
  /\ ff_args = NoArgs
  /\ raw = EmptyDict
  /\ formatted = EmptyDict
  /\ NoJob
  /\ NoReplay
  /\ NoVariant
  /\ NoBackend

\* one call self._apply_classical_feedforward(op, target_qubit, domain)
feedforward_call ==
  \E op \in {"X", "Z"}, target_qubit \in 0 .. (MaxSpace - 1), domain \in InjSeqs(Nodes, MaxFFDom) :
    /\ pc = "ff_call"
    /\ pc' = "ff_return"
    /\ ff_args' = [op |-> op, target_qubit |-> target_qubit]
    /\ cmd' = Cmd(op, -1, <<>>, "", 0, <<>>, <<>>, domain, NoClifford)
    /\ circuit' = circuit \o apply_classical_feedforward(op, target_qubit, domain, creg_map, results)
    /\ UNCHANGED <<pattern_vars, available_qubits, qubit_map, creg_map, next_creg_idx,
                   circ_output, err, cmd_start, n_cmds, raw, formatted, job_vars,
                   replay_vars, backend_vars, variant_vars>>

NextFF == feedforward_call

SpecFF == InitFF /\ [][NextFF]_vars

\* ------------------------------------------------------------ result decoder
\* A bitstring is a sequence of the characters 0 and 1; a histogram is a dict
\* from bitstrings to counts.
IndexError == -3    \* a string index out of range

BitStrings(n) == [1 .. n -> Bits]

\* s[k] on a Python string: k counts from 0, a negative k counts from the end
PyIndex(str, k) ==
  IF 0 <= k /\ k < Len(str) THEN str[k + 1]
  ELSE IF k < 0 /\ -k <= Len(str) THEN str[Len(str) + k + 1]
  ELSE IndexError

\* "".join(bitstring[n - 1 - idx] for idx in output_keys)
Masked(bitstring, n, output_keys) ==
  [i \in 1 .. Len(output_keys) |-> PyIndex(bitstring, n - 1 - output_keys[i])]

\* the loop of format_result over result.items(): each count is added to the
\* entry of its masked key
RECURSIVE Accumulate(_, _, _, _, _)
Accumulate(keys, result, n, output_keys, acc) ==
  IF keys = {}
  THEN acc
  ELSE LET bitstring == CHOOSE b \in keys : TRUE
           masked == Masked(bitstring, n, output_keys)
           old == IF masked \in DOMAIN acc THEN acc[masked] ELSE 0
       IN  Accumulate(keys \ {bitstring}, result, n, output_keys,
                      DictSet(acc, masked, old + result[bitstring]))

Returned(value) == [ok |-> TRUE, err |-> NoError, value |-> value]
Raised(e) == [ok |-> FALSE, err |-> e, value |-> EmptyDict]

\* format_result indexing the bitstring from the left (bitstring[idx])
format_result_left_index(result, n, outs, register_dict) ==
  IF \E i \in 1 .. Len(outs) : outs[i] \notin DOMAIN register_dict
  THEN Raised("KeyError")
  ELSE LET output_keys == [i \in 1 .. Len(outs) |-> n - 1 - register_dict[outs[i]]]
       IN  IF \E b \in DOMAIN result : IndexError \in Range(Masked(b, n, output_keys))
           THEN Raised("IndexError")
           ELSE Returned(Accumulate(DOMAIN result, result, n, output_keys, EmptyDict))

\* the loop of format_result storing each count instead of adding it
RECURSIVE Overwrite(_, _, _, _, _)
Overwrite(keys, result, n, output_keys, acc) ==
  IF keys = {}
  THEN acc
  ELSE LET bitstring == CHOOSE b \in keys : TRUE
       IN  Overwrite(keys \ {bitstring}, result, n, output_keys,
                     DictSet(acc, Masked(bitstring, n, output_keys), result[bitstring]))

\* format_result with formatted[masked] = count
format_result_overwrite(result, n, outs, register_dict) ==
  IF \E i \in 1 .. Len(outs) : outs[i] \notin DOMAIN register_dict
  THEN Raised("KeyError")
  ELSE LET output_keys == [i \in 1 .. Len(outs) |-> register_dict[outs[i]]]
       IN  IF \E b \in DOMAIN result : IndexError \in Range(Masked(b, n, output_keys))
           THEN Raised("IndexError")
           ELSE Returned(Overwrite(DOMAIN result, result, n, output_keys, EmptyDict))

\* format_result(result, pattern, register_dict) with n = pattern.n_node and
\* outs = pattern.output_nodes
format_result(result, n, outs, register_dict) ==
  IF \E i \in 1 .. Len(outs) : outs[i] \notin DOMAIN register_dict
  THEN Raised("KeyError")
  ELSE LET output_keys == [i \in 1 .. Len(outs) |-> register_dict[outs[i]]]
       IN  IF \E b \in DOMAIN result : IndexError \in Range(Masked(b, n, output_keys))
           THEN Raised("IndexError")
           ELSE Returned(Accumulate(DOMAIN result, result, n, output_keys, EmptyDict))

\* the counts of the drawn histograms
CountSample == {5, 10}
MaxKeys == 2        \* number of keys of a drawn raw histogram

\* the histograms over bitstrings of length n with at most MaxKeys keys
Histograms(n) ==
  UNION {[D -> CountSample] : D \in {X \in SUBSET BitStrings(n) : Cardinality(X) <= MaxKeys}}

\* the pattern, the register map and the raw histogram of one call of
\* format_result; the raw keys have the length of the classical register
InitDecode ==
  /\ max_space = MaxSpace
  /\ n_node \in 1 .. MaxNNode
  /\ input_nodes = <<>>
  /\ results = EmptyDict
  /\ output_nodes \in InjSeqs(Nodes, MaxOut)
  /\ save_statevector = FALSE
  /\ available_qubits = <<>>
  /\ qubit_map = EmptyDict
  /\ creg_map \in Dicts(Nodes, 0 .. n_node)
  /\ next_creg_idx = 0
  /\ circuit = <<>>
  /\ circ_output = <<>>
  /\ pc = "decode_call"
  /\ err = NoError
  /\ cmd = NoCmd
  /\ cmd_start = 0
  /\ n_cmds = 0
  /\ ff_args = NoArgs
  /\ raw \in Histograms(n_node)
  /\ formatted = EmptyDict
  /\ NoJob
  /\ NoReplay
  /\ NoVariant
  /\ NoBackend

\* one call format_result(raw, pattern, register_dict)
decode ==
  /\ pc = "decode_call"
  /\ LET r == format_result(raw, n_node, output_nodes, creg_map)
     IN  /\ pc' = IF r.ok THEN "decode_return" ELSE "error"
         /\ err' = r.err
         /\ formatted' = r.value
  /\ UNCHANGED <<pattern_vars, compiler_vars, cmd, cmd_start, n_cmds, ff_args, raw, job_vars,
                 replay_vars, backend_vars, variant_vars>>

NextDecode == decode

SpecDecode == InitDecode /\ [][NextDecode]_vars

\* ------------------------------------------------------------ job retrieval
\* A job created for a compiled circuit: the pattern and the register map
\* are those of the circuit, raw is the histogram the job yields once it is
\* DONE. The execution service moves the status, the caller polls once.
JobStatusNames == {"QUEUED", "RUNNING", "DONE", "ERROR", "CANCELLED"}
StatusReprs == {"enum", "str"}

\* the moves of a job's status
StatusMoves ==
  {<<"QUEUED", "RUNNING">>, <<"QUEUED", "CANCELLED">>, <<"RUNNING", "DONE">>,
   <<"RUNNING", "ERROR">>, <<"RUNNING", "CANCELLED">>}

\* IBMQJob.is_done: self.job.status() is JobStatus.DONE
is_done(st) == st.repr = "enum" /\ st.name = "DONE"

\* IBMQJobHandler.is_done: status().name == "DONE", and for a status
\* without name attribute str(status()).upper() == "DONE"
handler_is_done(st) == st.name = "DONE"

\* the record of one call format_result(counts, pattern, register_dict)
FormatCall(counts, n, outs, register_dict) ==
  [counts |-> counts, n_node |-> n, output_nodes |-> outs, register_dict |-> register_dict]

\* what a call of retrieve_result did
Retrieved(ret, fetches, calls) == [returned |-> ret, fetches |-> fetches, calls |-> calls]

\* what format_result hands back to its caller
Decoded(counts, n, outs, register_dict) ==
  LET r == format_result(counts, n, outs, register_dict)
  IN  IF r.ok THEN ReturnValue(r.value) ELSE ReturnRaised(r.err)

\* IBMQJob.retrieve_result decoding the counts whatever raw_result is
retrieve_result_always_decodes(done, raw_flag, counts, n, outs, register_dict) ==
  IF ~done
  THEN Retrieved(ReturnNone, 0, <<>>)
  ELSE Retrieved(Decoded(counts, n, outs, register_dict), 1,
                 <<FormatCall(counts, n, outs, register_dict)>>)

\* IBMQJob.retrieve_result(raw_result) on a job whose is_done is done
retrieve_result(done, raw_flag, counts, n, outs, register_dict) ==
  IF ~done
  THEN Retrieved(ReturnNone, 0, <<>>)
  ELSE IF raw_flag
       THEN Retrieved(ReturnValue(counts), 1, <<>>)
       ELSE Retrieved(Decoded(counts, n, outs, register_dict), 1,
                      <<FormatCall(counts, n, outs, register_dict)>>)

\* IBMQBackend.retrieve_result(job_handle, raw_result) for an
\* IBMQJobHandler: the decoded path reads self._compiler.register_dict, an
\* attribute IBMQPatternCompiler does not have
backend_retrieve_result(done, raw_flag, counts) ==
  IF ~done
  THEN Retrieved(ReturnNone, 0, <<>>)
  ELSE IF ~raw_flag
       THEN Retrieved(ReturnRaised("AttributeError"), 1, <<>>)
       ELSE Retrieved(ReturnValue(counts), 1, <<>>)

\* the counts of a job: histograms with at most one key
JobCounts(n) == {h \in Histograms(n) : Cardinality(DOMAIN h) <= 1}

InitJob ==
  /\ max_space = MaxSpace
  /\ n_node = MaxNNode
  /\ input_nodes = <<>>
  /\ results = EmptyDict
  /\ output_nodes \in InjSeqs(Nodes, MaxOut)
  /\ save_statevector = FALSE
  /\ available_qubits = <<>>
  /\ qubit_map = EmptyDict
  /\ creg_map \in RegisterMaps
  /\ next_creg_idx = 0
  /\ circuit = <<>>
  /\ circ_output = <<>>
  /\ pc = "job_wait"
  /\ err = NoError
  /\ cmd = NoCmd
  /\ cmd_start = 0
  /\ n_cmds = 0
  /\ ff_args = NoArgs
  /\ raw \in JobCounts(n_node)
  /\ formatted = EmptyDict
  /\ status \in {JobStatus("QUEUED", r) : r \in StatusReprs}
  /\ caller = "none"
  /\ raw_result = FALSE
  /\ done_seen = FALSE
  /\ returned = NoReturn
  /\ result_fetches = 0
  /\ format_calls = <<>>
  /\ NoReplay
  /\ NoVariant
  /\ NoBackend

\* the execution service moves the job to its next status
job_progress ==
  \E m \in StatusMoves :
    /\ pc = "job_wait"
    /\ status.name = m[1]
    /\ status' = JobStatus(m[2], status.repr)
    /\ UNCHANGED <<pattern_vars, compiler_vars, control_vars, decoder_vars, caller,
                   raw_result, done_seen, returned, result_fetches, format_calls,
                   replay_vars, backend_vars, variant_vars>>

\* the caller's side of one call of retrieve_result
Retrieve(who, flag, done, r) ==
  /\ pc = "job_wait"
  /\ pc' = "job_return"
  /\ caller' = who
  /\ raw_result' = flag
  /\ done_seen' = done
  /\ returned' = r.returned
  /\ result_fetches' = result_fetches + r.fetches
  /\ format_calls' = format_calls \o r.calls
  /\ UNCHANGED <<pattern_vars, compiler_vars, err, cmd, cmd_start, n_cmds, decoder_vars, status,
                 replay_vars, backend_vars, variant_vars>>

\* IBMQJob(job, compiled_circuit).retrieve_result(raw_result)
job_retrieve_result ==
  \E flag \in BOOLEAN :
    Retrieve("IBMQJob", flag, is_done(status),
             retrieve_result(is_done(status), flag, raw, n_node, output_nodes, creg_map))

\* IBMQBackend.retrieve_result(IBMQJobHandler(job), raw_result)
backend_retrieve ==
  \E flag \in BOOLEAN :
    Retrieve("IBMQBackend", flag, handler_is_done(status),
             backend_retrieve_result(handler_is_done(status), flag, raw))

NextJob ==
  \/ job_progress
  \/ job_retrieve_result
  \/ backend_retrieve

SpecJob == InitJob /\ [][NextJob]_vars

\* ------------------------------------------------------------------ polling
MaxPolls == 2  \* calls of retrieve_result that fetched the result of the job

\* the caller, handed the value of a call of retrieve_result, calls it again
poll_again ==
  /\ pc = "job_return"
  /\ result_fetches < MaxPolls
  /\ pc' = "job_wait"
  /\ UNCHANGED <<pattern_vars, compiler_vars, err, cmd, cmd_start, n_cmds, decoder_vars,
                 job_vars, replay_vars, backend_vars, variant_vars>>

NextPolling ==
  \/ job_progress
  \/ job_retrieve_result
  \/ backend_retrieve
  \/ poll_again

\* a caller that keeps calling retrieve_result while the job runs
SpecPolling == InitJob /\ [][NextPolling]_vars

\* ------------------------------------------------------- Clifford gate table
\* The table entries as _apply_c emits them: a C command with index i on a
\* mapped node, followed by a C command with index CLIFFORD_CONJ[i] on the
\* same node.
CliffordIndices == 0 .. (Len(CLIFFORD_TO_QISKIT) - 1)

\* the circuit methods the table names
ElementaryGates == {"id", "x", "y", "z", "s", "sdg", "h"}

\* a Pauli operator with its sign
Pauli(p, sign) == [p |-> p, sign |-> sign]

\* g P g^-1 for a gate g of the table and a Pauli P
Conjugated(g, P) ==
  LET flip == Pauli(P.p, -P.sign)
  IN  CASE g = "id" -> P
        [] g = "x" -> IF P.p = "X" THEN P ELSE flip
        [] g = "y" -> IF P.p = "Y" THEN P ELSE flip
        [] g = "z" -> IF P.p = "Z" THEN P ELSE flip
        [] g = "h" -> CASE P.p = "X" -> Pauli("Z", P.sign)
                        [] P.p = "Z" -> Pauli("X", P.sign)
                        [] OTHER -> flip
        [] g = "s" -> CASE P.p = "X" -> Pauli("Y", P.sign)
                        [] P.p = "Y" -> Pauli("X", -P.sign)
                        [] OTHER -> P
        [] g = "sdg" -> CASE P.p = "X" -> Pauli("Y", -P.sign)
                          [] P.p = "Y" -> Pauli("X", P.sign)
                          [] OTHER -> P

\* the Pauli P after the operations ops, applied in circuit order
RECURSIVE Propagate(_, _)
Propagate(ops, P) ==
  IF ops = <<>> THEN P ELSE Propagate(Tail(ops), Conjugated(Head(ops).name, P))

\* a compiler whose node map holds one node, before any C command
ConstructClifford ==
  /\ max_space = MaxSpace
  /\ n_node = MaxNNode
  /\ input_nodes = <<>>
  /\ results = EmptyDict
  /\ output_nodes = <<>>
  /\ save_statevector = FALSE
  /\ available_qubits = <<>>
  /\ \E node \in Nodes, circ_idx \in 0 .. (MaxSpace - 1) : qubit_map = DictSet(EmptyDict, node, circ_idx)
  /\ creg_map = EmptyDict
  /\ next_creg_idx = 0
  /\ circuit = <<>>
  /\ circ_output = <<>>
  /\ pc = "clifford_call"
  /\ err = NoError
  /\ cmd = NoCmd
  /\ cmd_start = 0
  /\ n_cmds = 0
  /\ ff_args = NoArgs
  /\ raw = EmptyDict
  /\ formatted = EmptyDict
  /\ NoJob
  /\ NoReplay
  /\ NoBackend

InitClifford == ConstructClifford /\ NoVariant

\* _apply_c for the table entry index on the mapped node
apply_entry(node, index) ==
  /\ circuit' = circuit \o GateSeq(CLIFFORD_TO_QISKIT[index + 1], qubit_map[node])
  /\ cmd_start' = Len(circuit)
  /\ n_cmds' = n_cmds + 1
  /\ UNCHANGED <<pattern_vars, available_qubits, qubit_map, creg_map, next_creg_idx,
                 circ_output, err, decoder_vars, job_vars, replay_vars, backend_vars>>
  /\ runner' = IF runner = NoRunner THEN runner ELSE to_qiskit_c(runner, CmdC(node, index))

\* a C command with any index of the table
clifford_call ==
  \E node \in DOMAIN qubit_map, index \in CliffordIndices :
    /\ pc = "clifford_call"
    /\ pc' = "clifford_applied"
    /\ cmd' = CmdC(node, index)
    /\ apply_entry(node, index)

\* the C command with the conjugate index of the command before
conjugate_call ==
  /\ pc = "clifford_applied"
  /\ pc' = "conjugate_applied"
  /\ cmd' = cmd
  /\ apply_entry(cmd.node, CLIFFORD_CONJ[cmd.clifford + 1])

NextClifford ==
  \/ clifford_call
  \/ conjugate_call

SpecClifford == InitClifford /\ [][NextClifford]_vars

\* to_qiskit holds the same node map and reads the same C commands
InitCliffordVariants ==
  /\ ConstructClifford
  /\ runner = RunnerState(available_qubits, qubit_map, EmptyDict, 0, <<>>, <<>>, NoError)

\* the table entries as _apply_c and the C branch of to_qiskit emit them
SpecCliffordVariants == InitCliffordVariants /\ [][NextClifford]_vars

\* ================================================================ IBMQBackend
MaxCalls == 6  \* number of calls made on one IBMQBackend

\* the patterns handed to the backend, by what compiling them does:
\* IBMQPatternCompiler(pattern) raises (more input nodes than max_space), the
\* compilation raises (for example an unsupported measurement plane), or a
\* circuit is returned
Patterns ==
  {[type |-> "Pattern", compilation |-> c] : c \in {"init_raises", "compile_raises", "compiles"}}

\* the values of IBMQCompileOptions
IBMQCompileOptions ==
  [type : {"IBMQCompileOptions"}, optimization_level : {1, 3}, save_statevector : BOOLEAN,
   layout_method : {"trivial"}]

\* IBMQCompileOptions()
DefaultOptions ==
  [type |-> "IBMQCompileOptions", optimization_level |-> 3, save_statevector |-> FALSE,
   layout_method |-> "trivial"]

\* a CompileOptions that is not an IBMQCompileOptions
OtherOptions == [type |-> "CompileOptions"]

\* IBMQPatternCompiler(pattern): the compiler object, or the exception of the
\* input-node loop
IBMQPatternCompiler(pattern, id) ==
  IF pattern.compilation = "init_raises"
  THEN [raised |-> "RuntimeError", compiler |-> None]
  ELSE [raised |-> NoError,
        compiler |-> [type |-> "IBMQPatternCompiler", pattern |-> pattern, id |-> id]]

\* compiler.to_qiskit_circuit(save_statevector, layout_method): the circuit of
\* the compiler's pattern, or the exception the compilation raised
to_qiskit_circuit(compiler, save, layout_method) ==
  IF compiler.pattern.compilation = "compile_raises"
  THEN [raised |-> "NotImplementedError", circuit |-> None]
  ELSE [raised |-> NoError,
        circuit |-> [type |-> "QuantumCircuit", pattern |-> compiler.pattern,
                     compiler |-> compiler.id,
                     save_statevector |-> save, layout_method |-> layout_method]]

\* the call returned or raised: the outcome is recorded
Called(call, raised) ==
  /\ b_outcome' = Outcome(call, raised)
  /\ b_history' = Append(b_history, Outcome(call, raised))

\* a pattern is handed to the backend (DeviceBackend.set_pattern)
set_pattern(pattern) ==
  /\ Len(b_history) < MaxCalls
  /\ b_pattern' = pattern
  /\ Called("set_pattern", NoError)
  /\ UNCHANGED <<b_options, b_compiler, b_compiled_circuit, b_execution_mode, b_simulator,
                 b_resource, b_jobs, compilation_vars>>

\* the three fields as they are, with the exception raised
Aborted(raised) ==
  [raised |-> raised, options |-> b_options, compiler |-> b_compiler,
   circuit |-> b_compiled_circuit]

\* lines 39-49 of IBMQBackend.compile: the options are stored, then the
\* compiler is created and stored, then the circuit is compiled and stored
compile_pattern(opts) ==
  LET c == IBMQPatternCompiler(b_pattern, Len(b_history) + 1)
      r == to_qiskit_circuit(c.compiler, opts.save_statevector, opts.layout_method)
  IN  IF c.raised /= NoError
      THEN [raised |-> c.raised, options |-> opts, compiler |-> b_compiler,
            circuit |-> b_compiled_circuit]
      ELSE IF r.raised /= NoError
      THEN [raised |-> r.raised, options |-> opts, compiler |-> c.compiler,
            circuit |-> b_compiled_circuit]
      ELSE [raised |-> NoError, options |-> opts, compiler |-> c.compiler,
            circuit |-> r.circuit]

\* compile that tests the type of the options before the pattern and takes
\* missing options as a request for the state capture
compile_options_first(options) ==
  IF options /= None /\ options.type /= "IBMQCompileOptions"
  THEN Aborted("TypeError")
  ELSE IF b_pattern = None
  THEN Aborted("ValueError")
  ELSE compile_pattern(IF options = None
                       THEN [DefaultOptions EXCEPT !.save_statevector = TRUE]
                       ELSE options)

\* IBMQBackend.compile(options): the exception raised and the three fields
\* after the call
compile(options) ==
  IF b_pattern = None
  THEN Aborted("ValueError")
  ELSE IF options /= None /\ options.type /= "IBMQCompileOptions"
  THEN Aborted("TypeError")
  ELSE compile_pattern(IF options = None THEN DefaultOptions ELSE options)

\* a call of IBMQBackend.compile
backend_compile(options) ==
  /\ Len(b_history) < MaxCalls
  /\ LET r == compile(options)
     IN  /\ b_options' = r.options
         /\ b_compiler' = r.compiler
         /\ b_compiled_circuit' = r.circuit
         /\ Called("compile", r.raised)
  /\ UNCHANGED <<b_pattern, b_execution_mode, b_simulator, b_resource, b_jobs, compilation_vars>>

\* a call of IBMQBackend.set_simulator; NoiseModel.from_backend(based_on) runs
\* before any assignment and may raise
set_simulator(from_backend_raises) ==
  /\ Len(b_history) < MaxCalls
  /\ IF from_backend_raises
     THEN /\ Called("set_simulator", "Exception")
          /\ UNCHANGED <<b_execution_mode, b_simulator>>
     ELSE /\ b_execution_mode' = Str("simulation")
          /\ b_simulator' = "AerSimulator"
          /\ Called("set_simulator", NoError)
  /\ UNCHANGED <<b_pattern, b_options, b_compiler, b_compiled_circuit, b_resource, b_jobs,
                 compilation_vars>>

\* a call of IBMQBackend.select_backend; QiskitRuntimeService() and the lookup
\* of the backend run after the mode is assigned and may raise
select_backend(service_raises) ==
  /\ Len(b_history) < MaxCalls
  /\ b_execution_mode' = Str("hardware")
  /\ IF service_raises
     THEN /\ Called("select_backend", "Exception")
          /\ UNCHANGED b_resource
     ELSE /\ b_resource' = "IBMBackend"
          /\ Called("select_backend", NoError)
  /\ UNCHANGED <<b_pattern, b_options, b_compiler, b_compiled_circuit, b_simulator, b_jobs,
                 compilation_vars>>

\* the job that sampler.run receives
SubmittedJob(target) ==
  [circuit |-> b_compiled_circuit, mode |-> b_execution_mode, target |-> target,
   optimization_level |-> b_options.optimization_level]

\* submit_job that tests only the execution mode
submit_job_unchecked_circuit(run_raises) ==
  IF b_execution_mode = None
  THEN [raised |-> "RuntimeError", jobs |-> b_jobs]
  ELSE IF run_raises
  THEN [raised |-> "Exception", jobs |-> b_jobs]
  ELSE [raised |-> NoError,
        jobs |-> Append(b_jobs, [circuit |-> b_compiled_circuit, mode |-> b_execution_mode])]

\* IBMQBackend.submit_job(shots): the exception raised and the jobs handed to
\* the sampler after the call; the pass manager and the sampler may raise
submit_job(run_raises) ==
  IF b_compiled_circuit = None
  THEN [raised |-> "RuntimeError", jobs |-> b_jobs]
  ELSE IF b_execution_mode = None
  THEN [raised |-> "RuntimeError", jobs |-> b_jobs]
  ELSE IF b_execution_mode = Str("simulation")
  THEN IF b_simulator = Unset
       THEN [raised |-> "AttributeError", jobs |-> b_jobs]
       ELSE IF run_raises
       THEN [raised |-> "Exception", jobs |-> b_jobs]
       ELSE [raised |-> NoError, jobs |-> Append(b_jobs, SubmittedJob(b_simulator))]
  ELSE IF b_execution_mode = Str("hardware")
  THEN IF b_resource = Unset
       THEN [raised |-> "AttributeError", jobs |-> b_jobs]
       ELSE IF run_raises
       THEN [raised |-> "Exception", jobs |-> b_jobs]
       ELSE [raised |-> NoError, jobs |-> Append(b_jobs, SubmittedJob(b_resource))]
  ELSE [raised |-> "RuntimeError", jobs |-> b_jobs]

\* a call of IBMQBackend.submit_job
backend_submit_job(run_raises) ==
  /\ Len(b_history) < MaxCalls
  /\ LET r == submit_job(run_raises)
     IN  /\ b_jobs' = r.jobs
         /\ Called("submit_job", r.raised)
  /\ UNCHANGED <<b_pattern, b_options, b_compiler, b_compiled_circuit, b_execution_mode,
                 b_simulator, b_resource, compilation_vars>>

\* the pattern and the compiler whose register_dict the decoding of
\* IBMQBackend.retrieve_result reads: the fields of the backend at the call
DecodeArguments == [pattern |-> b_pattern, compiler |-> b_compiler]

\* a call of IBMQBackend.retrieve_result(job_handle, raw_result); job_handle
\* is the handler submit_job returned for b_jobs[j], or with j = 0 a
\* JobHandler of another class
backend_retrieve_job(j, done, raw_flag) ==
  /\ Len(b_history) < MaxCalls
  /\ IF j = 0
     THEN Called("retrieve_result", "TypeError")
     ELSE IF ~done \/ raw_flag
     THEN Called("retrieve_result", NoError)
     ELSE IF DecodeArguments.compiler = None
     THEN Called("retrieve_result", "AttributeError")
     ELSE Called("retrieve_result", NoError)
  /\ UNCHANGED <<b_pattern, b_options, b_compiler, b_compiled_circuit, b_execution_mode,
                 b_simulator, b_resource, b_jobs, compilation_vars>>

\* IBMQBackend(): __init__ assigns None to the four fields and returns
InitBackend ==
  /\ max_space = 1
  /\ n_node = 1
  /\ input_nodes = <<>>
  /\ results = EmptyDict
  /\ output_nodes = <<>>
  /\ available_qubits = <<>>
  /\ qubit_map = EmptyDict
  /\ creg_map = EmptyDict
  /\ next_creg_idx = 0
  /\ circuit = <<>>
  /\ circ_output = <<>>
  /\ save_statevector = FALSE
  /\ pc = "done"
  /\ err = NoError
  /\ cmd = NoCmd
  /\ cmd_start = 0
  /\ n_cmds = 0
  /\ ff_args = NoArgs
  /\ raw = EmptyDict
  /\ formatted = EmptyDict
  /\ NoJob
  /\ NoReplay
  /\ NoVariant
  /\ NoBackend

NextBackend ==
  \/ \E pattern \in Patterns : set_pattern(pattern)
  \/ \E options \in IBMQCompileOptions \cup {None, OtherOptions} : backend_compile(options)
  \/ \E from_backend_raises \in BOOLEAN : set_simulator(from_backend_raises)
  \/ \E service_raises \in BOOLEAN : select_backend(service_raises)
  \/ \E run_raises \in BOOLEAN : backend_submit_job(run_raises)
  \/ \E j \in 0 .. Len(b_jobs), done \in BOOLEAN, raw_flag \in BOOLEAN :
       backend_retrieve_job(j, done, raw_flag)

SpecBackend == InitBackend /\ [][NextBackend]_vars

\* ===================================================================== claims
CountOps(ops, name) == Cardinality({i \in 1 .. Len(ops) : ops[i].name = name})

\* the operations emitted while commands were dispatched (the finalizer's
\* operations come after them)
DispatchedOps == IF cmd.kind = "finalize" THEN SubSeq(circuit, 1, cmd_start) ELSE circuit

\* the operations emitted for the command handled last
EmittedOps == SubSeq(circuit, cmd_start + 1, Len(circuit))

\* physical indices taken from the pool (one reset each) and not yet returned
\* by a Measure command (one measurement each)
LiveAllocations == CountOps(DispatchedOps, "reset") - CountOps(DispatchedOps, "measure")

\* C1: after every prefix of the command stream, input nodes included, the
\* number of physical indices taken from the pool and not yet returned by a
\* Measure is at most max_space.
C1_PoolBound == LiveAllocations <= max_space

\* the pool is exhausted after a slot was released and taken again, and a
\* further NewQubit was refused
C1_Witness ==
  /\ pc = "error"
  /\ err = "RuntimeError"
  /\ cmd.kind = "N"
  /\ creg_map # EmptyDict
  /\ LiveAllocations = max_space

\* ---- feed-forward
GateOf(op) == IF op = "X" THEN "x" ELSE "z"

\* every node of the domain has a bit: a register index or a known result
AllKnown(domain) == \A d \in Range(domain) : d \in DOMAIN creg_map \/ d \in DOMAIN results

\* an operation is executed under the register values b
Fires(o, b) == o.cond = NoReg \/ b[o.cond] = 1

\* how often the operations ops apply gate to target under the register values b
Applications(ops, gate, target, b) ==
  Cardinality({i \in 1 .. Len(ops) :
                 ops[i].name = gate /\ ops[i].qubits = <<target>> /\ Fires(ops[i], b)})

\* the bit of node d: its register's value, else its known result
NodeBit(d, b) == IF d \in DOMAIN creg_map THEN b[creg_map[d]] ELSE results[d]

\* the XOR of the bits of a set of nodes
RECURSIVE Parity(_, _)
Parity(S, b) ==
  IF S = {} THEN 0
  ELSE LET d == CHOOSE x \in S : TRUE IN (NodeBit(d, b) + Parity(S \ {d}, b)) % 2

RegisterValues == [0 .. (MaxNode - 1) -> Bits]

\* C2: for every kind, target, domain and iteration order, and for all
\* register values, the emitted operations apply the gate to the target an
\* odd number of times exactly when the XOR over the domain of the nodes'
\* bits is 1.
C2_ParityOfDomain ==
  (pc = "ff_return" /\ AllKnown(cmd.domain)) =>
    \A b \in RegisterValues :
      Applications(circuit, GateOf(ff_args.op), ff_args.target_qubit, b) % 2
        = Parity(Range(cmd.domain), b)

\* a two-node domain, one node read from a register and one known at compile
\* time to be 1
C2_Witness ==
  /\ pc = "ff_return"
  /\ Len(cmd.domain) = 2
  /\ cmd.domain[1] \notin DOMAIN creg_map
  /\ Lookup(results, cmd.domain[1]) = 1
  /\ cmd.domain[2] \in DOMAIN creg_map
  /\ Len(circuit) = 2

\* C5: a domain node without register index whose known result is 1 yields
\* one unconditional gate on the target, with known result 0 it yields
\* nothing, and a node with register index r yields one gate conditioned on
\* register r, whatever pattern.results says about it.
C5_OneOperationPerNode ==
  (pc = "ff_return" /\ AllKnown(cmd.domain)) =>
    /\ \A i \in 1 .. Len(circuit) :
         /\ circuit[i].name = GateOf(ff_args.op)
         /\ circuit[i].qubits = <<ff_args.target_qubit>>
    /\ Cardinality({i \in 1 .. Len(circuit) : circuit[i].cond = NoReg})
         = Cardinality({d \in Range(cmd.domain) : d \notin DOMAIN creg_map /\ results[d] = 1})
    /\ \A r \in 0 .. (MaxNode - 1) :
         Cardinality({i \in 1 .. Len(circuit) : circuit[i].cond = r})
           = Cardinality({d \in Range(cmd.domain) : Lookup(creg_map, d) = r})

\* a node with a register index and a known result of 1, next to a node
\* without register index and known result 0
C5_Witness ==
  /\ pc = "ff_return"
  /\ Len(cmd.domain) = 2
  /\ cmd.domain[1] \in DOMAIN creg_map
  /\ Lookup(results, cmd.domain[1]) = 1
  /\ cmd.domain[2] \notin DOMAIN creg_map
  /\ Lookup(results, cmd.domain[2]) = 0
  /\ Len(circuit) = 1
  /\ circuit[1].cond = creg_map[cmd.domain[1]]

\* ---- result decoder
\* every output node has a register index inside the classical register
ValidRegisters ==
  \A i \in 1 .. Len(output_nodes) :
    /\ output_nodes[i] \in DOMAIN creg_map
    /\ creg_map[output_nodes[i]] < n_node

\* the decoding of one raw key as the claim states it: character i is the
\* raw character at position size-1-r (positions count from 0), where
\* r = register_dict[output_nodes[i]]
DecodedKey(bitstring) ==
  [i \in 1 .. Len(output_nodes) |-> bitstring[(n_node - 1 - creg_map[output_nodes[i]]) + 1]]

\* C3: for raw keys of the length of the classical register, the keys of
\* the result have length |output_nodes| and character i is the raw key's
\* character at position size-1-r, r = register_dict[output_nodes[i]]; raw
\* {"01": 10, "10": 5} with size 2, output_nodes [0, 1] and register_dict
\* {0:0, 1:1} decodes to {"10": 10, "01": 5}.
C3_DecodedKeys ==
  (pc = "decode_return" /\ ValidRegisters) =>
    /\ DOMAIN formatted = {DecodedKey(b) : b \in DOMAIN raw}
    /\ \A k \in DOMAIN formatted : Len(k) = Len(output_nodes)
    /\ ( /\ n_node = 2
         /\ output_nodes = <<0, 1>>
         /\ creg_map = [x \in {0, 1} |-> x]
         /\ raw = (<<0, 1>> :> 10) @@ (<<1, 0>> :> 5) )
       => formatted = (<<1, 0>> :> 10) @@ (<<0, 1>> :> 5)

\* the literal case of the claim has been decoded
C3_Witness ==
  /\ pc = "decode_return"
  /\ n_node = 2
  /\ output_nodes = <<0, 1>>
  /\ creg_map = [x \in {0, 1} |-> x]
  /\ raw = (<<0, 1>> :> 10) @@ (<<1, 0>> :> 5)
  /\ formatted = (<<1, 0>> :> 10) @@ (<<0, 1>> :> 5)

\* the sum of the counts of a histogram
RECURSIVE TotalCount(_)
TotalCount(h) ==
  IF DOMAIN h = {} THEN 0
  ELSE LET k == CHOOSE x \in DOMAIN h : TRUE
       IN  h[k] + TotalCount([x \in (DOMAIN h) \ {k} |-> h[x]])

\* C4: the counts of the result of format_result sum to the counts of the
\* raw histogram: colliding keys have their counts added, none is dropped
\* or counted twice.
C4_CountConservation ==
  pc = "decode_return" =>
    /\ TotalCount(formatted) = TotalCount(raw)
    /\ \A k \in DOMAIN formatted :
         formatted[k] = TotalCount([b \in {x \in DOMAIN raw :
                           Masked(x, n_node, [i \in 1 .. Len(output_nodes) |->
                                                creg_map[output_nodes[i]]]) = k} |-> raw[b]])

\* two raw keys decode to the same output string and their counts were added
C4_Witness ==
  /\ pc = "decode_return"
  /\ Cardinality(DOMAIN raw) = 2
  /\ Cardinality(DOMAIN formatted) = 1
  /\ output_nodes # <<>>
  /\ \E k \in DOMAIN formatted : formatted[k] = 15

\* ---- Measure
Positions(ops, name) == {i \in 1 .. Len(ops) : ops[i].name = name}

\* the command read by this step is a Measure on plane XY of a mapped node
MeasureStep ==
  /\ n_cmds' = n_cmds + 1
  /\ cmd'.kind = "M"
  /\ cmd'.plane = "XY"
  /\ cmd'.node \in DOMAIN qubit_map

C7_ConjugateCliffordFirst ==
  (pc = "dispatch" /\ cmd.kind = "M" /\ cmd.clifford # NoClifford) =>
    LET conj == GateSeq(CLIFFORD_TO_QISKIT[CLIFFORD_CONJ[cmd.clifford + 1] + 1],
                        qubit_map[cmd.node])
    IN  /\ Len(EmittedOps) >= Len(conj)
        /\ SubSeq(EmittedOps, 1, Len(conj)) = conj

\* ---- references
Unknown(domain) == \E d \in Range(domain) : d \notin DOMAIN creg_map /\ d \notin DOMAIN results

\* C8: a command whose correction domain contains a node without register
\* index that is not in pattern.results aborts the compilation.
C8_UnknownDomainNodeAborts ==
  ( /\ cmd.kind \in {"M", "X", "Z"}
    /\ Unknown(cmd.s_domain) \/ Unknown(cmd.t_domain) \/ Unknown(cmd.domain) )
  => pc = "error"

\* the nodes a command names
NamedNodes(c) == IF c.kind = "E" THEN Range(c.nodes) ELSE {c.node}

\* C9: an Entangle, Measure, CorrectX, CorrectZ or ApplyClifford command
\* that names a node never allocated (the node map gets its entries from the
\* input nodes and from NewQubit commands only) aborts the compilation:
\* nothing is emitted for it, and a compilation that raised returns nothing.
C9_UnallocatedNodeAborts ==
  [][/\ (n_cmds = 0 /\ cmd.kind = "none") => DOMAIN qubit_map \subseteq Range(input_nodes)
     /\ DOMAIN qubit_map' # DOMAIN qubit_map =>
          (cmd'.kind = "N" /\ DOMAIN qubit_map' = DOMAIN qubit_map \cup {cmd'.node})
     /\ ( /\ n_cmds' = n_cmds + 1
          /\ cmd'.kind \in {"E", "M", "X", "Z", "C"}
          /\ \E n \in NamedNodes(cmd') : n \notin DOMAIN qubit_map )
        => (pc' = "error" /\ err' # NoError /\ circuit' = circuit)
     /\ pc = "error" => pc' = "error"]_vars

\* an Entangle of an allocated node with a node never allocated was refused
C9_Witness ==
  /\ pc = "error"
  /\ err = "KeyError"
  /\ cmd.kind = "E"
  /\ cmd.nodes[1] \in DOMAIN qubit_map
  /\ cmd.nodes[2] \notin DOMAIN qubit_map
  /\ Len(circuit) = cmd_start
  /\ n_cmds = 2

\* C10: the node map holds exactly the nodes allocated and not yet measured;
\* a Measure that returns the node's index to the pool removes its entry.
C10_MapHoldsLiveNodesOnly ==
  pc = "dispatch" =>
    /\ \A n \in DOMAIN qubit_map : n \notin DOMAIN creg_map
    /\ cmd.kind = "M" => cmd.node \notin DOMAIN qubit_map

\* ---- error handling
\* C11: a Measure command whose plane is not XY aborts the compilation with
\* an error: nothing is emitted for it, the free pool, the node map, the
\* register map and the register counter keep their values, and compile
\* returns no compiled circuit (a compilation that raised stays so).
C11_UnsupportedPlaneAborts ==
  [][/\ (n_cmds' = n_cmds + 1 /\ cmd'.kind = "M" /\ cmd'.plane # "XY")
          => /\ pc' = "error"
             /\ err' = "NotImplementedError"
             /\ circuit' = circuit
             /\ available_qubits' = available_qubits
             /\ qubit_map' = qubit_map
             /\ creg_map' = creg_map
             /\ next_creg_idx' = next_creg_idx
             /\ circ_output' = circ_output
     /\ pc = "error" => (pc' = "error" /\ circ_output' = <<>>)]_vars

\* a Measure on plane YZ of an allocated node was refused after an earlier
\* Measure had been compiled
C11_Witness ==
  /\ pc = "error"
  /\ err = "NotImplementedError"
  /\ cmd.kind = "M"
  /\ cmd.plane = "YZ"
  /\ cmd.node \in DOMAIN qubit_map
  /\ next_creg_idx = 1
  /\ Len(circuit) = cmd_start
  /\ circ_output = <<>>

\* the state __init__ leaves when its k-th allocation is the first on an
\* empty pool: the first max_space input nodes hold the indices in order
FilledPool ==
  /\ available_qubits = <<>>
  /\ qubit_map = [n \in {input_nodes[i] : i \in 1 .. max_space} |->
                    (CHOOSE i \in 1 .. max_space : input_nodes[i] = n) - 1]
  /\ Len(circuit) = 2 * max_space
  /\ \A i \in 1 .. max_space :
       circuit[2 * i - 1] = Gate("reset", i - 1) /\ circuit[2 * i] = Gate("h", i - 1)

\* C12: an allocation on an empty pool fails with an error and leaves the
\* free pool, the node map and the emitted operations as they were before
\* the call, both for a NewQubit command and for an input node in __init__;
\* an allocation on a pool that is not empty does not fail.
C12_EmptyPoolAllocationFails ==
  /\ []((n_cmds = 0 /\ cmd.kind = "none") =>
          /\ (pc = "error") = (Len(input_nodes) > max_space)
          /\ pc = "error" => (err = "RuntimeError" /\ FilledPool))
  /\ [][(n_cmds' = n_cmds + 1 /\ cmd'.kind = "N") =>
          IF available_qubits = <<>>
          THEN /\ pc' = "error"
               /\ err' = "RuntimeError"
               /\ available_qubits' = available_qubits
               /\ qubit_map' = qubit_map
               /\ circuit' = circuit
          ELSE pc' = "dispatch"]_vars

\* a NewQubit was refused on a pool emptied by the input nodes and by an
\* earlier NewQubit, with nothing emitted for it
C12_Witness ==
  /\ pc = "error"
  /\ err = "RuntimeError"
  /\ cmd.kind = "N"
  /\ n_cmds = 2
  /\ input_nodes # <<>>
  /\ available_qubits = <<>>
  /\ cmd.node \notin DOMAIN qubit_map
  /\ Len(circuit) = cmd_start

\* ---- finalizer
\* the number of Measure commands processed: each emitted one measurement
MeasuredCount == CountOps(DispatchedOps, "measure")

\* the operations of the finalizer after the state capture, if any
OutputMeasurements ==
  IF EmittedOps # <<>> /\ EmittedOps[1] = SaveStatevector THEN Tail(EmittedOps) ELSE EmittedOps

\* C13: once the command stream is exhausted the finalizer emits exactly
\* one measurement per output node, in the order of output_nodes, and
\* output_nodes[i] (i counted from 0) is measured into and recorded with
\* register index m + i, m the number of Measure commands processed.
C13_OutputRegisters ==
  (pc = "done" /\ cmd.kind = "finalize") =>
    /\ Len(OutputMeasurements) = Len(output_nodes)
    /\ \A i \in 1 .. Len(output_nodes) :
         /\ OutputMeasurements[i] = MeasureOp(qubit_map[output_nodes[i]], MeasuredCount + i - 1)
         /\ creg_map[output_nodes[i]] = MeasuredCount + i - 1
    /\ next_creg_idx = MeasuredCount + Len(output_nodes)

\* two output nodes were measured, in an order that is not the order of
\* their physical indices
C13_Witness ==
  /\ pc = "done"
  /\ cmd.kind = "finalize"
  /\ Len(output_nodes) = 2
  /\ qubit_map[output_nodes[1]] > qubit_map[output_nodes[2]]
  /\ creg_map[output_nodes[2]] = 1

\* C14: with save_statevector true exactly one state capture is emitted,
\* after every operation of the command stream and immediately before the
\* first output measurement, and the returned output-qubit list is the
\* physical indices of output_nodes in order; with save_statevector false
\* no capture is emitted and the list is empty.
C14_StateCapture ==
  (pc = "done" /\ cmd.kind = "finalize") =>
    IF save_statevector
    THEN /\ Positions(circuit, "save_statevector") = {cmd_start + 1}
         /\ \A i \in (cmd_start + 2) .. Len(circuit) : circuit[i].name = "measure"
         /\ Len(circuit) = cmd_start + 1 + Len(output_nodes)
         /\ circ_output = [i \in 1 .. Len(output_nodes) |-> qubit_map[output_nodes[i]]]
    ELSE /\ Positions(circuit, "save_statevector") = {}
         /\ circ_output = <<>>

\* a state capture between the operations of a command and the measurement
\* of two output nodes
C14_Witness ==
  /\ pc = "done"
  /\ cmd.kind = "finalize"
  /\ save_statevector
  /\ n_cmds > 0
  /\ Len(circ_output) = 2
  /\ circ_output[1] > circ_output[2]
  /\ circuit[Len(circuit) - 2] = SaveStatevector

\* C15: during the compilation and after the finalization the register map
\* has at most n_node + |output_nodes| entries, and no node that has a
\* register index is given one a second time.
C15_RegisterAssignedOnce ==
  [][/\ Cardinality(DOMAIN creg_map') <= n_node' + Len(output_nodes')
     /\ \A n \in DOMAIN creg_map : n \in DOMAIN creg_map' /\ creg_map'[n] = creg_map[n]]_vars

\* ---- jobs
\* C16: is_done is true exactly when the job's status is DONE, and a call
\* of retrieve_result on a job that is not done, with raw_result true or
\* false, on IBMQJob and on IBMQBackend, returns None without fetching the
\* job's result and without decoding.
C16_NotDoneReturnsNone ==
  pc = "job_return" =>
    /\ done_seen = (status.name = "DONE")
    /\ ~done_seen => (returned = ReturnNone /\ result_fetches = 0 /\ format_calls = <<>>)

\* C17: for a job that is done, IBMQJob.retrieve_result(raw_result=True)
\* returns the job's counts unchanged and does not call the decoder, and
\* retrieve_result(raw_result=False) returns what one call of the decoder
\* on those counts, the pattern and the register map of the job's compiled
\* circuit returns.
C17_RawOrDecoded ==
  (pc = "job_return" /\ caller = "IBMQJob" /\ done_seen) =>
    /\ result_fetches = 1
    /\ IF raw_result
       THEN returned = ReturnValue(raw) /\ format_calls = <<>>
       ELSE /\ format_calls = <<FormatCall(raw, n_node, output_nodes, creg_map)>>
            /\ returned = Decoded(raw, n_node, output_nodes, creg_map)

\* a done job with one raw key whose decoded key differs from it was
\* retrieved decoded
C17_Witness ==
  /\ pc = "job_return"
  /\ caller = "IBMQJob"
  /\ done_seen
  /\ ~raw_result
  /\ returned.kind = "value"
  /\ DOMAIN raw # {}
  /\ DOMAIN returned.value # DOMAIN raw
  /\ Len(output_nodes) = 2

\* C18: retrieving the result of a job that ended in ERROR or CANCELLED
\* raises the execution service's error instead of reporting the job as
\* not ready.
C18_FailureSurfaced ==
  (pc = "job_return" /\ status.name \in {"ERROR", "CANCELLED"}) =>
    /\ returned.kind = "raised"
    /\ result_fetches = 1

\* ---- Clifford table
\* the gates of the table entry applied by the first C command
EntryOps == IF pc = "clifford_applied" THEN circuit ELSE SubSeq(circuit, 1, cmd_start)

\* C19 (as the claim states it): the table has 24 entries and every entry
\* is a sequence of at most 3 gates out of id, x, y, z, s, sdg and h.
C19_Original ==
  /\ Len(CLIFFORD_TO_QISKIT) = 24
  /\ pc \in {"clifford_applied", "conjugate_applied"} =>
       /\ Len(EntryOps) \in 1 .. 3
       /\ \A i \in 1 .. Len(EntryOps) : EntryOps[i].name \in ElementaryGates

\* C19 (amended): the table has 24 entries and every entry is a sequence of
\* at least one and at most 4 gates out of id, x, y, z, s, sdg and h; the
\* entries 13 and 15 are the ones with 4 gates.
C19_TableEntries ==
  /\ Len(CLIFFORD_TO_QISKIT) = 24
  /\ pc \in {"clifford_applied", "conjugate_applied"} =>
       /\ EntryOps = GateSeq(CLIFFORD_TO_QISKIT[cmd.clifford + 1], qubit_map[cmd.node])
       /\ Len(EntryOps) \in 1 .. 4
       /\ Len(EntryOps) = 4 <=> cmd.clifford \in {13, 15}
       /\ \A i \in 1 .. Len(EntryOps) : EntryOps[i].name \in ElementaryGates

\* the four gates of entry 15 were emitted
C19_Witness ==
  /\ pc = "clifford_applied"
  /\ cmd.clifford = 15
  /\ Len(circuit) = 4
  /\ circuit[4].name = "x"

\* C20: for every index i of the table, the gates of entry i followed by
\* the gates of entry CLIFFORD_CONJ[i] on the same qubit map Pauli X to X
\* and Pauli Z to Z under conjugation (the identity up to a global phase);
\* for entry 4 (s) the conjugate is entry 5 (sdg).
C20_ConjugateIsInverse ==
  /\ Len(CLIFFORD_CONJ) = Len(CLIFFORD_TO_QISKIT)
  /\ pc = "conjugate_applied" =>
       /\ Propagate(circuit, Pauli("X", 1)) = Pauli("X", 1)
       /\ Propagate(circuit, Pauli("Z", 1)) = Pauli("Z", 1)
       /\ \A i \in 1 .. Len(circuit) : circuit[i].qubits = <<qubit_map[cmd.node]>>
       /\ cmd.clifford = 4 =>
            circuit = <<Gate("s", qubit_map[cmd.node]), Gate("sdg", qubit_map[cmd.node])>>

\* entry 17 and its conjugate, entry 22, were applied: six gates that do
\* not cancel pairwise
C20_Witness ==
  /\ pc = "conjugate_applied"
  /\ cmd.clifford = 17
  /\ Len(circuit) = 6
  /\ Propagate(SubSeq(circuit, 1, cmd_start), Pauli("X", 1)) # Pauli("X", 1)
  /\ Propagate(circuit, Pauli("Y", 1)) = Pauli("Y", 1)

\* ---- repeated compilation
\* C21: every call of compile starts from an empty register map, a register
\* counter of 0 and a free pool that holds every physical index except those
\* of the input nodes, so a second call of compile on the same compiler
\* returns the register map and the operation list the first call returned.
C21_FreshStatePerCompile ==
  pass = 2 =>
    /\ (n_cmds = 0 /\ cmd = NoCmd) =>
         /\ creg_map = EmptyDict
         /\ next_creg_idx = 0
         /\ available_qubits = [i \in 1 .. (max_space - Len(input_nodes)) |-> Len(input_nodes) + i - 1]
    /\ pc = "done" => (circuit = first.circuit /\ creg_map = first.register_dict)

\* ---- IBMQBackend
\* a compile call that returned is among the first n calls
CompiledIn(n) ==
  \E j \in 1 .. n : b_history[j] = Outcome("compile", NoError)

\* a call that assigned the execution mode is among the first n calls:
\* set_simulator that returned, or select_backend (which assigns the mode in
\* its first statement)
ConfiguredIn(n) ==
  \E j \in 1 .. n :
    \/ b_history[j] = Outcome("set_simulator", NoError)
    \/ b_history[j].call = "select_backend"

\* the calls of submit_job that returned
Submissions == {i \in 1 .. Len(b_history) : b_history[i] = Outcome("submit_job", NoError)}

C24_FailedCompileKeepsState ==
  [][\A options \in IBMQCompileOptions \cup {None, OtherOptions} :
       (backend_compile(options) /\ b_outcome'.raised /= NoError) =>
         UNCHANGED <<b_options, b_compiler, b_compiled_circuit>>]_vars

\* C25: IBMQBackend() raises TypeError, so no sequence of calls starts from
\* an instance that __init__ returned.
C25_DirectInstantiationRaises ==
  b_history = <<>> => b_outcome = Outcome("__init__", "TypeError")

\* ---- well-formed command streams
\* so far every allocation was of a node not allocated before (one reset per
\* entry of the node map) and every Measure of a node not measured before
\* (one measurement per entry of the register map)
WellFormedPrefix ==
  /\ CountOps(DispatchedOps, "reset") = Cardinality(DOMAIN qubit_map)
  /\ CountOps(DispatchedOps, "measure") = Cardinality(DOMAIN creg_map)

\* C27: while the input nodes plus the NewQubit commands minus the Measure
\* commands read so far stay at most max_space, each node being allocated
\* once and measured at most once, no allocation finds the pool empty:
\* neither the input-node loop nor a NewQubit command raises the pool-empty
\* error.
C27_WellFormedNeverExhausts ==
  /\ []((n_cmds = 0 /\ cmd.kind = "none" /\ Len(input_nodes) <= max_space) => pc # "error")
  /\ [][( /\ n_cmds' = n_cmds + 1
          /\ cmd'.kind = "N"
          /\ WellFormedPrefix
          /\ cmd'.node \notin DOMAIN qubit_map
          /\ LiveAllocations + 1 <= max_space )
        => (pc' = "dispatch" /\ err' = NoError /\ cmd'.node \in DOMAIN qubit_map')]_vars

\* with max_space 1 the input node was measured and a NewQubit then took the
\* slot it had released
C27_Witness ==
  /\ max_space = 1
  /\ Len(input_nodes) = 1
  /\ n_cmds = 2
  /\ cmd.kind = "N"
  /\ pc = "dispatch"
  /\ input_nodes[1] \in DOMAIN creg_map
  /\ cmd.node \in DOMAIN qubit_map
  /\ qubit_map[cmd.node] = qubit_map[input_nodes[1]]
  /\ available_qubits = <<>>

\* ---- register indices
\* no node was measured twice: every measurement emitted, by a Measure
\* command or by the finalizer, made an entry of its own in the register map
NoNodeMeasuredTwice == CountOps(circuit, "measure") = Cardinality(DOMAIN creg_map)

\* C28: register indices are handed out consecutively from 0 in the order
\* the measurements are emitted (the k-th measurement of the circuit writes
\* register k-1), and as long as no node was measured twice the register
\* counter is the number of entries of the register map, the map is
\* injective and its values are exactly 0 .. counter-1.
C28_ConsecutiveRegisters ==
  /\ \A p \in Positions(circuit, "measure") :
       circuit[p].clbit = Cardinality({q \in Positions(circuit, "measure") : q < p})
  /\ NoNodeMeasuredTwice =>
       /\ next_creg_idx = Cardinality(DOMAIN creg_map)
       /\ \A m, n \in DOMAIN creg_map : creg_map[m] = creg_map[n] => m = n
       /\ {creg_map[n] : n \in DOMAIN creg_map} = 0 .. (next_creg_idx - 1)

\* a Measure command took register 0 and the finalizer register 1 for the
\* output node
C28_Witness ==
  /\ pc = "done"
  /\ cmd.kind = "finalize"
  /\ NoNodeMeasuredTwice
  /\ next_creg_idx = 2
  /\ Len(output_nodes) = 1
  /\ creg_map[output_nodes[1]] = 1
  /\ \E n \in DOMAIN creg_map : creg_map[n] = 0

\* ---- frame conditions of the handlers
\* ops continues the operation list old
Extends(ops, old) == Len(ops) >= Len(old) /\ SubSeq(ops, 1, Len(old)) = old

\* C29: the handlers of Entangle, CorrectX, CorrectZ and ApplyClifford only
\* append operations: the free pool, the node map, the register map and the
\* register counter keep their values. Of the six commands only NewQubit
\* changes the node map, and the pool by taking its first index; only
\* Measure changes the register map and the counter, and the pool by
\* appending the measured node's index.
C29_HandlerFrames ==
  [][n_cmds' = n_cmds + 1 =>
       /\ Extends(circuit', circuit)
       /\ cmd'.kind \in {"E", "X", "Z", "C"} =>
            UNCHANGED <<available_qubits, qubit_map, creg_map, next_creg_idx>>
       /\ cmd'.kind = "N" =>
            /\ UNCHANGED <<creg_map, next_creg_idx>>
            /\ available_qubits' # available_qubits =>
                 /\ available_qubits' = Tail(available_qubits)
                 /\ qubit_map' = DictSet(qubit_map, cmd'.node, Head(available_qubits))
            /\ available_qubits' = available_qubits => qubit_map' = qubit_map
       /\ cmd'.kind = "M" =>
            /\ UNCHANGED qubit_map
            /\ available_qubits' # available_qubits =>
                 /\ available_qubits' = Append(available_qubits, qubit_map[cmd'.node])
                 /\ creg_map' = DictSet(creg_map, cmd'.node, next_creg_idx)
                 /\ next_creg_idx' = next_creg_idx + 1
            /\ available_qubits' = available_qubits =>
                 UNCHANGED <<creg_map, next_creg_idx>>]_vars

\* an ApplyClifford emitted its gates after a Measure had released a slot and
\* taken a register index
C29_Witness ==
  /\ cmd.kind = "C"
  /\ pc = "dispatch"
  /\ Len(circuit) > cmd_start
  /\ creg_map # EmptyDict
  /\ available_qubits # <<>>
  /\ next_creg_idx = 1

\* ---- termination
\* the six command kinds of the dispatcher
CommandKinds == {"N", "E", "M", "X", "Z", "C"}

\* what is left to do: the commands not yet read, and the finalizer
Remaining == (MaxCmds - n_cmds) + (IF pc = "dispatch" THEN 1 ELSE 0)

\* C30: the compilation of a finite pattern terminates, with a compiled
\* circuit or with an error: a compilation that has neither returned nor
\* raised can always take its next step, and every step lowers what is left
\* to do, which is never negative. Every step of the dispatcher handles the
\* command at the next position of the stream (the position moves on by one,
\* never back and never twice over the same command), the finalizer runs
\* once, after the commands, and ends the compilation, and nothing runs
\* after the finalizer or after an error.
C30_SinglePassTerminates ==
  /\ [](/\ pc \in {"dispatch", "done", "error"}
        /\ Remaining >= 0
        /\ pc = "dispatch" => ENABLED Next)
  /\ [][/\ pc = "dispatch"
        /\ Remaining' < Remaining
        /\ \/ /\ n_cmds' = n_cmds + 1
              /\ cmd'.kind \in CommandKinds
              /\ pc' \in {"dispatch", "error"}
           \/ /\ n_cmds' = n_cmds
              /\ cmd'.kind = "finalize"
              /\ pc' \in {"done", "error"}]_vars

\* the finalizer ended a compilation that had handled MaxCmds commands
C30_Witness ==
  /\ pc = "done"
  /\ cmd.kind = "finalize"
  /\ n_cmds = MaxCmds
  /\ Remaining = 0

\* ---- compile, execute, decode
\* the raw key the execution yields when classical register r holds b[r]:
\* register r is at string position size-1-r, positions counted from 0
RawKey(b, size) == [p \in 1 .. size |-> b[size - p]]

\* C31: for a compilation that returned and every assignment of bits to the
\* classical registers, the raw key of that assignment, decoded by
\* format_result with the pattern and the register map of the compilation,
\* has at character i the bit of the register that the finalizer's
\* measurement of output_nodes[i] writes.
C31_CompileDecodeRoundTrip ==
  (pc = "done" /\ cmd.kind = "finalize") =>
    \A b \in [0 .. (n_node - 1) -> Bits] :
      LET r == format_result([k \in {RawKey(b, n_node)} |-> 1], n_node, output_nodes, creg_map)
      IN  /\ r.ok
          /\ Len(OutputMeasurements) = Len(output_nodes)
          /\ DOMAIN r.value
               = {[i \in 1 .. Len(output_nodes) |-> b[OutputMeasurements[i].clbit]]}

\* two output nodes measured by the finalizer in an order that is not the
\* order of their physical indices, after a compilation of two commands
C31_Witness ==
  /\ pc = "done"
  /\ cmd.kind = "finalize"
  /\ n_cmds = 2
  /\ n_node = 2
  /\ Len(output_nodes) = 2
  /\ OutputMeasurements[1].qubits = <<1>>
  /\ OutputMeasurements[2].qubits = <<0>>
  /\ OutputMeasurements[2].clbit = 1

\* ---- pool partition
\* the nodes allocated and not measured
LiveNodes == (DOMAIN qubit_map) \ (DOMAIN creg_map)

\* C32: after any prefix of the command stream in which each node was
\* allocated once and measured at most once, the free pool holds no index
\* twice, no two allocated-and-unmeasured nodes hold the same physical
\* index, no such node holds a free index, and the free indices together
\* with the indices of those nodes are exactly 0 .. max_space-1 (also when
\* the last command, or the input-node loop, raised).
C32_PoolPartition ==
  (cmd.kind # "finalize" /\ WellFormedPrefix) =>
    /\ \A i, j \in 1 .. Len(available_qubits) :
         available_qubits[i] = available_qubits[j] => i = j
    /\ \A m, n \in LiveNodes : qubit_map[m] = qubit_map[n] => m = n
    /\ \A n \in LiveNodes : qubit_map[n] \notin Range(available_qubits)
    /\ Range(available_qubits) \cup {qubit_map[n] : n \in LiveNodes} = 0 .. (max_space - 1)

\* both input nodes were measured, the second first, and the pool holds
\* their indices in the order of release
C32_Witness ==
  /\ pc = "dispatch"
  /\ WellFormedPrefix
  /\ n_cmds = 2
  /\ cmd.kind = "M"
  /\ available_qubits = <<1, 0>>
  /\ LiveNodes = {}

\* ---- slots of measured nodes
\* C33: no gate or measurement emitted for an Entangle, Measure, CorrectX,
\* CorrectZ or ApplyClifford command acts on a physical index that is free
\* when the command is handled, or that belongs to an allocated-and-
\* unmeasured node the command does not name.
C33_NoOperationOnForeignSlot ==
  [][(n_cmds' = n_cmds + 1 /\ cmd'.kind \in {"E", "M", "X", "Z", "C"}) =>
       \A i \in (Len(circuit) + 1) .. Len(circuit') :
         \A q \in Range(circuit'[i].qubits) :
           /\ q \notin Range(available_qubits)
           /\ \A m \in LiveNodes \ NamedNodes(cmd') : qubit_map[m] # q]_vars

ComparedOps(circ) ==
  SelectSeq(circ, LAMBDA o : o.name \in {"reset", "cz", "measure"} \/ o.cond # NoReg)

\* a Measure on a plane other than XY was dispatched
NonXYDispatched == cmd.kind = "M" /\ cmd.plane # "XY"

\* C35: on a pattern whose measurements are all on plane XY, as long as
\* IBMQPatternCompiler.compile goes on, runner.IBMQBackend.to_qiskit goes on
\* too, both hold the same node-to-index and node-to-register maps, and both
\* have emitted the same resets, entangling gates, conditional corrections
\* and measurements on the same indices.
C35_VariantsAgree ==
  (runner # NoRunner /\ ~NonXYDispatched /\ pc # "error") =>
    /\ runner.raised = NoError
    /\ qubit_map = runner.qubit_dict
    /\ creg_map = runner.register_dict
    /\ ComparedOps(circuit) = ComparedOps(runner.circ)

\* ---- size of the classical register
\* the pattern read so far has at most n_node nodes and measured none twice
CountedNodes ==
  /\ Cardinality(DOMAIN qubit_map) <= n_node
  /\ NoNodeMeasuredTwice

\* C36: the classical register has n_node bits. In a pattern whose nodes
\* number at most n_node and are each measured once by a Measure command or
\* else listed once as an output node, every measurement of the circuit
\* writes a register index below n_node: neither a Measure of a node not
\* measured before nor the finalizer measuring output nodes not measured
\* before is refused for lack of a classical bit.
C36_MeasurementsFitRegister ==
  /\ [](\A p \in Positions(circuit, "measure") : circuit[p].clbit \in 0 .. (n_node - 1))
  /\ [][/\ ( /\ n_cmds' = n_cmds + 1
             /\ cmd'.kind = "M"
             /\ cmd'.plane = "XY"
             /\ cmd'.node \in (DOMAIN qubit_map) \ (DOMAIN creg_map)
             /\ CountedNodes )
           => /\ pc' = "dispatch"
              /\ circuit'[Len(circuit')] = MeasureOp(qubit_map[cmd'.node], next_creg_idx)
              /\ next_creg_idx < n_node
        /\ ( /\ cmd'.kind = "finalize"
             /\ cmd.kind # "finalize"
             /\ Range(output_nodes') \subseteq (DOMAIN qubit_map) \ (DOMAIN creg_map)
             /\ CountedNodes )
           => /\ pc' = "done"
              /\ CountOps(circuit', "measure") = next_creg_idx + Len(output_nodes')
              /\ next_creg_idx' <= n_node]_vars

\* a pattern of two nodes with a register of two bits: one node was measured
\* by a Measure command into bit 0, the other as the output node into bit 1
C36_Witness ==
  /\ pc = "done"
  /\ cmd.kind = "finalize"
  /\ n_node = 2
  /\ Cardinality(DOMAIN qubit_map) = 2
  /\ NoNodeMeasuredTwice
  /\ Len(output_nodes) = 1
  /\ MeasuredCount = 1
  /\ circuit[Len(circuit)].clbit = n_node - 1

\* ---- polling
\* the counts of the job can be decoded with its pattern and register map
DecodableJob == format_result(raw, n_node, output_nodes, creg_map).ok

\* this step is a call of IBMQJob.retrieve_result
JobPoll == pc = "job_wait" /\ pc' = "job_return" /\ caller' = "IBMQJob"

\* C37: DONE is a status a job does not leave. A call of
\* IBMQJob.retrieve_result made while the status of the job is not DONE
\* returns None; a call made once the status is DONE returns a histogram,
\* and the same histogram as the call before it with the same raw_result if
\* that call returned one. A caller that keeps polling a job that reaches
\* DONE therefore ends up with a histogram.
C37_PollingYieldsHistogram ==
  [][/\ status.name = "DONE" => status' = status
     /\ (JobPoll /\ DecodableJob) =>
          /\ status.name # "DONE" => returned' = ReturnNone
          /\ status.name = "DONE" =>
               /\ returned'.kind = "value"
               /\ ( /\ caller = "IBMQJob"
                    /\ raw_result = raw_result'
                    /\ returned.kind = "value" ) => returned' = returned]_vars

\* ---- input nodes
\* the operations that prepare the first k physical indices, in index order
InputPreparation(k) ==
  [p \in 1 .. 2 * k |-> IF p % 2 = 1 THEN Gate("reset", (p - 1) \div 2)
                                      ELSE Gate("h", (p - 2) \div 2)]

\* C38: before the first command is read, both interpreters have allocated
\* the input nodes in input_nodes order, each with a reset followed by a
\* Hadamard, so that the i-th input node (from 0) holds physical index i; with
\* more input nodes than max_space both have failed on the empty pool
\* instead, and no command is read. A first command that names input nodes
\* only finds them in the node map without a NewQubit.
C38_InputsAllocatedFirst ==
  /\ []((n_cmds = 0 /\ cmd.kind = "none") =>
          IF Len(input_nodes) <= max_space
          THEN /\ pc = "dispatch"
               /\ runner.raised = NoError
               /\ \A i \in 1 .. Len(input_nodes) :
                    /\ qubit_map[input_nodes[i]] = i - 1
                    /\ runner.qubit_dict[input_nodes[i]] = i - 1
               /\ circuit = InputPreparation(Len(input_nodes))
               /\ runner.circ = InputPreparation(Len(input_nodes))
               /\ available_qubits = [p \in 1 .. (max_space - Len(input_nodes)) |->
                                        Len(input_nodes) + p - 1]
               /\ runner.empty_qubit = available_qubits
          ELSE /\ pc = "error"
               /\ err = "RuntimeError"
               /\ runner.raised = "IndexError"
               /\ ~ENABLED Next)
  /\ [][( /\ n_cmds = 0
          /\ n_cmds' = 1
          /\ cmd'.kind \in {"E", "M", "X", "Z", "C"}
          /\ cmd'.kind = "M" => cmd'.plane = "XY"
          /\ NamedNodes(cmd') \subseteq Range(input_nodes) )
        => (pc' = "dispatch" /\ err' = NoError)]_vars

\* the first command entangled the two input nodes, which hold the physical
\* indices 0 and 1 in input_nodes order
C38_Witness ==
  /\ n_cmds = 1
  /\ cmd.kind = "E"
  /\ pc = "dispatch"
  /\ runner.raised = NoError
  /\ Len(input_nodes) = 2
  /\ Range(cmd.nodes) = Range(input_nodes)
  /\ qubit_map[input_nodes[2]] = 1
  /\ circuit[Len(circuit)].name = "cz"

\* ---- the two Clifford tables
\* the circuit method each member of QiskitUGate stands for
MethodOf == [ID |-> "id", X |-> "x", Y |-> "y", Z |-> "z", S |-> "s", SDG |-> "sdg", H |-> "h"]

\* C39: the table of clifford.py and the table of runner.py have the same
\* length and list, for every index, the same gates in the same order; and
\* for a C command both interpreters emit the gates of the entry, in list
\* order, on the physical index of the node.
C39_TablesAgreeAndEmitted ==
  /\ Len(runner_CLIFFORD_TO_QISKIT) = Len(CLIFFORD_TO_QISKIT)
  /\ \A i \in 1 .. Len(CLIFFORD_TO_QISKIT) :
       CLIFFORD_TO_QISKIT[i] =
         [k \in 1 .. Len(runner_CLIFFORD_TO_QISKIT[i]) |-> MethodOf[runner_CLIFFORD_TO_QISKIT[i][k]]]
  /\ pc \in {"clifford_applied", "conjugate_applied"} =>
       /\ EntryOps = GateSeq(CLIFFORD_TO_QISKIT[cmd.clifford + 1], qubit_map[cmd.node])
       /\ runner.circ = circuit

====
